---- MODULE Spec2Model ----
(***************************************************************************)
(* Challenge-bypass and session-lifecycle manager of company-scraper.      *)
(*                                                                         *)
(*   cloudflareSolver.py   CloudflareTurnstileExtractor (sitekey           *)
(*                         validator, network observers)                   *)
(*   cloudflare_utils.py   session store (save / load / clear / info) and  *)
(*                         challenge detector (is_session_valid)           *)
(*   scrapers.py           check_and_solve_cloudflare                      *)
(*                                                                         *)
(* Text is modelled as sequences of one-character strings, so that length, *)
(* prefix and per-character tests are computed as the code computes them.  *)
(***************************************************************************)
EXTENDS Integers, Sequences, FiniteSets, TLC

VARIABLES
    vIn,        \* validator: the string handed to _is_valid_turnstile_sitekey
    vOut,       \* validator: "none" before the call, then "accept" or "reject"
    files,      \* session store: path -> content of the file at that path
    last,       \* session store: the most recent store operation and its outcome
    prev,       \* session store: summary of the operation before `last`
    cleared,    \* session store: domain -> a clear(domain) happened, no save(domain) since
    savedBy,    \* session store: path -> domain of the last successful save to it
    page,       \* detector: the page's current URL, raw markup and rendered text
    iv,         \* detector: the frame of the current / last is_session_valid call
    streak,     \* detector: results of the last calls made on the page as it is now
    handlers,   \* observer: page -> the listeners registered with page.on, in order
    ext,        \* observer: extractor id -> the fields of that extractor object
    gs,         \* observer: the frame of the current / last get_sitekey call
    emitted,    \* observer: number of network events the browser has emitted
    lastRuns,   \* observer: number of handler runs the last event caused
    seen,       \* observer: what the listeners were handed so far
    pending,    \* observer: response handlers waiting at `await response.text()`
    xIn,        \* URL extraction: the URL handed to _extract_sitekey_from_url
    xOut,       \* URL extraction: whether the call was made, and what it returned
    sv,         \* solver: the frame of the current / last solve_cloudflare_challenge call
    service,    \* solver: what the solving service has been sent and has answered
    orc,        \* orchestrator: the frame of the current / last get_bypassed_page call
    win,        \* page window: the widget, the render interceptor and window.turnstileParams
    chk         \* scraper: the frame of the current / last check_and_solve_cloudflare call

vars == <<vIn, vOut, files, last, prev, cleared, savedBy, page, iv, streak,
          handlers, ext, gs, emitted, lastRuns, seen, pending, xIn, xOut, sv, service, orc,
          win, chk>>

valVars == <<vIn, vOut>>
storeVars == <<files, last, prev, cleared, savedBy>>

\* what an action of one component leaves alone
detVars == <<page, iv, streak>>
obsVars == <<handlers, ext, gs, emitted, lastRuns, seen, pending>>
urlVars == <<xIn, xOut>>
solveVars == <<sv, service>>
orcVars == <<orc>>
winVars == <<win>>
chkVars == <<chk>>
nonValVars == <<storeVars, detVars, obsVars, urlVars, solveVars, orcVars, winVars, chkVars>>
nonStoreVars == <<valVars, detVars, obsVars, urlVars, solveVars, orcVars, winVars, chkVars>>
nonDetVars == <<valVars, storeVars, obsVars, urlVars, solveVars, orcVars, winVars, chkVars>>
nonObsVars == <<valVars, storeVars, detVars, urlVars, solveVars, orcVars, winVars, chkVars>>
nonUrlVars == <<valVars, storeVars, detVars, obsVars, solveVars, orcVars, winVars, chkVars>>

(***************************************************************************)
(* Characters and strings                                                  *)
(***************************************************************************)
UpperSeq == <<"A","B","C","D","E","F","G","H","I","J","K","L","M",
              "N","O","P","Q","R","S","T","U","V","W","X","Y","Z">>
LowerSeq == <<"a","b","c","d","e","f","g","h","i","j","k","l","m",
              "n","o","p","q","r","s","t","u","v","w","x","y","z">>
DigitSeq == <<"0","1","2","3","4","5","6","7","8","9">>

Range(s) == {s[i] : i \in DOMAIN s}

AlnumChars == Range(UpperSeq) \cup Range(LowerSeq) \cup Range(DigitSeq)

\* str.isalnum() on one character (ASCII part)
isalnum(c) == c \in AlnumChars

UpperChars == Range(UpperSeq)
LowerOf == [c \in UpperChars |-> LowerSeq[CHOOSE i \in DOMAIN UpperSeq : UpperSeq[i] = c]]

\* str.lower() on one character
LowerChar(c) == IF c \in UpperChars THEN LowerOf[c] ELSE c

\* str.lower()
lower(s) == [i \in DOMAIN s |-> LowerChar(s[i])]

\* str.startswith(p)
startswith(s, p) == Len(s) >= Len(p) /\ SubSeq(s, 1, Len(p)) = p

(***************************************************************************)
(* Sitekey validator                                                       *)
(***************************************************************************)
MinSitekeyLen == 22
MaxSitekeyLen == 35
MaxFormatLen == 30

\* CloudflareTurnstileExtractor._is_valid_turnstile_sitekey
is_valid_turnstile_sitekey(sitekey) ==
    IF Len(sitekey) = 0 \/ Len(sitekey) < MinSitekeyLen \/ Len(sitekey) > MaxSitekeyLen
    THEN FALSE
    ELSE IF ~startswith(lower(sitekey), <<"0", "x">>)
    THEN FALSE
    ELSE IF Len(sitekey) >= MinSitekeyLen /\ Len(sitekey) <= MaxFormatLen
            /\ \A i \in 3..Len(sitekey) : isalnum(sitekey[i])
    THEN TRUE
    ELSE FALSE

\* The sitekey named in the validator's docstring: 0x4AAAAAAADnPIDROrmt1Wwj
KnownSitekey == <<"0","x","4","A","A","A","A","A","A","A","D","n","P","I","D","R",
                  "O","r","m","t","1","W","w","j">>

\* Largest number of characters after the two-character prefix in a generated input.
MaxBody == 35

Prefixes == {<<"0","x">>, <<"0","X">>, <<"x","0">>, <<"0","y">>}

\* prefix, then n characters "A", the one at position bad (if any) replaced by "-"
MkInput(p, n, bad) == p \o [i \in 1..n |-> IF i = bad THEN "-" ELSE "A"]

ValidatorInputs ==
    {KnownSitekey, <<>>, <<"0">>}
        \cup {MkInput(p, n, bad) : p \in Prefixes, n \in 0..MaxBody, bad \in 0..MaxBody}

\* one call of the validator on the input
Validate ==
    /\ vOut = "none"
    /\ vOut' = IF is_valid_turnstile_sitekey(vIn) THEN "accept" ELSE "reject"
    /\ UNCHANGED vIn
    /\ UNCHANGED nonValVars

(***************************************************************************)
(* Session store (cloudflare_utils.py)                                     *)
(***************************************************************************)
\* Domains the store is called with; "a.b" and "a_b" differ only in "." / "_".
Domains == {<<"a", ".", "b">>, <<"a", "_", "b">>, <<"c", ".", "d">>}

\* domain.replace(".", "_")
safe_domain(domain) == [i \in DOMAIN domain |-> IF domain[i] = "." THEN "_" ELSE domain[i]]

\* get_session_path: SESSION_DIR / f"cloudflare_{safe_domain}.json"
get_session_path(domain) == <<".sessions/cloudflare_">> \o safe_domain(domain) \o <<".json">>

Paths == {get_session_path(d) : d \in Domains}

Cookie(n, v) == [name |-> n, value |-> v]
cf1 == Cookie("cf_clearance", "t1")
cf2 == Cookie("cf_clearance", "t2")
sid == Cookie("sid", "s")

\* Cookie lists a browser context can hold when its storage state is written.
CookieJars == {<<sid>>, <<sid, cf1>>, <<cf2>>}

\* File contents: no file; bytes that do not decode as text; text that is not
\* JSON; JSON whose top level is not an object; a storage state (JSON object).
NoFile == [kind |-> "absent", cookies |-> <<>>]
BytesFile == [kind |-> "bytes", cookies |-> <<>>]
TextFile == [kind |-> "text", cookies |-> <<>>]
ArrayFile == [kind |-> "array", cookies |-> <<>>]
StateFile(cs) == [kind |-> "state", cookies |-> cs]

DamagedFiles == {BytesFile, TextFile, ArrayFile}

\* Variant: only the first cookie is inspected.
has_cf_clearance_first(cookies) == cookies # <<>> /\ cookies[1].name = "cf_clearance"

\* any(c.get('name') == 'cf_clearance' for c in cookies)
has_cf_clearance(cookies) == \E i \in DOMAIN cookies : cookies[i].name = "cf_clearance"

None == [ok |-> FALSE, cookies |-> <<>>, created |-> FALSE]

\* context.storage_state(path=...) writes the context's cookies as JSON; `io_ok`
\* is whether that call returned without raising.
save_cloudflare_session(fs, cookies, domain, io_ok) ==
    LET session_path == get_session_path(domain) IN
    IF io_ok
    THEN [ret |-> TRUE, files |-> [fs EXCEPT ![session_path] = StateFile(cookies)]]
    ELSE [ret |-> FALSE, files |-> fs]

\* Variant: a session without the clearance cookie is removed like a corrupt one.
load_unlink_incomplete(fs, domain) ==
    LET session_path == get_session_path(domain)
        f == fs[session_path]
    IN  IF f.kind \in {"absent", "bytes"}
        THEN [ret |-> None, files |-> fs]
        ELSE IF f.kind = "text" \/ f.kind = "array" \/ ~has_cf_clearance(f.cookies)
        THEN [ret |-> None, files |-> [fs EXCEPT ![session_path] = NoFile]]
        ELSE [ret |-> [ok |-> TRUE, cookies |-> f.cookies, created |-> TRUE],
              files |-> fs]

\* load_cloudflare_session: ret.ok is "a context was returned", ret.cookies its
\* cookies, ret.created whether browser.new_context was called.
load_cloudflare_session(fs, domain) ==
    LET session_path == get_session_path(domain)
        f == fs[session_path]
    IN  IF f.kind = "absent"
        THEN [ret |-> None, files |-> fs]
        ELSE IF f.kind = "bytes"
        \* open(..., 'r') / json.load raises UnicodeDecodeError: outer handler
        THEN [ret |-> None, files |-> fs]
        ELSE IF f.kind = "text"
        \* json.JSONDecodeError: unlink and return None
        THEN [ret |-> None, files |-> [fs EXCEPT ![session_path] = NoFile]]
        ELSE IF f.kind = "array"
        \* session_data.get raises AttributeError: outer handler
        THEN [ret |-> None, files |-> fs]
        ELSE IF ~has_cf_clearance(f.cookies)
        THEN [ret |-> None, files |-> fs]
        ELSE [ret |-> [ok |-> TRUE, cookies |-> f.cookies, created |-> TRUE],
              files |-> fs]

\* clear_session
clear_session(fs, domain) ==
    LET session_path == get_session_path(domain) IN
    IF fs[session_path].kind # "absent"
    THEN [ret |-> TRUE, files |-> [fs EXCEPT ![session_path] = NoFile]]
    ELSE [ret |-> FALSE, files |-> fs]

NoInfo == [exists |-> FALSE, cookie_count |-> 0, has_cf_clearance |-> FALSE]

\* Variant: a file that does not parse is removed, as load does.
get_session_info_unlink_corrupt(fs, domain) ==
    LET session_path == get_session_path(domain)
        f == fs[session_path]
    IN  IF f.kind = "absent"
        THEN [ret |-> NoInfo, files |-> fs]
        ELSE IF f.kind \in {"bytes", "text", "array"}
        THEN [ret |-> NoInfo, files |-> [fs EXCEPT ![session_path] = NoFile]]
        ELSE [ret |-> [exists |-> TRUE, cookie_count |-> Len(f.cookies),
                       has_cf_clearance |-> has_cf_clearance(f.cookies)],
              files |-> fs]

\* get_session_info
get_session_info(fs, domain) ==
    LET session_path == get_session_path(domain)
        f == fs[session_path]
    IN  IF f.kind = "absent"
        THEN [ret |-> NoInfo, files |-> fs]
        ELSE IF f.kind \in {"bytes", "text", "array"}
        \* json.load or session_data.get raises: handler returns None
        THEN [ret |-> NoInfo, files |-> fs]
        ELSE [ret |-> [exists |-> TRUE, cookie_count |-> Len(f.cookies),
                       has_cf_clearance |-> has_cf_clearance(f.cookies)],
              files |-> fs]

\* What `prev` keeps of an operation: a successful save, or nothing.
Summary(o) ==
    IF o.op = "save" /\ o.ok
    THEN [op |-> "save", domain |-> o.domain, cookies |-> o.cookies]
    ELSE [op |-> "other", domain |-> <<>>, cookies |-> <<>>]

NoOp == [op |-> "none", domain |-> <<>>, pre |-> NoFile, ok |-> FALSE,
         cookies |-> <<>>, created |-> FALSE, info |-> NoInfo, othersKept |-> TRUE]

\* The files of every other domain are the same in fs2 as in fs1.
OthersKept(fs1, fs2, d) ==
    \A d2 \in Domains \ {d} : fs2[get_session_path(d2)] = fs1[get_session_path(d2)]

\* The store before any operation: SESSION_DIR holds no session file.
EmptyStore == [p \in Paths |-> NoFile]

\* save(domain) of a context holding `cookies`
Save(d, cookies, io_ok) ==
    LET r == save_cloudflare_session(files, cookies, d, io_ok) IN
    /\ files' = r.files
    /\ last' = [NoOp EXCEPT !.op = "save", !.domain = d, !.pre = files[get_session_path(d)],
                            !.ok = r.ret, !.cookies = cookies,
                            !.othersKept = OthersKept(files, r.files, d)]
    /\ prev' = Summary(last)
    /\ cleared' = [cleared EXCEPT ![d] = FALSE]
    /\ savedBy' = IF r.ret THEN [savedBy EXCEPT ![get_session_path(d)] = d] ELSE savedBy
    /\ UNCHANGED nonStoreVars

\* load(domain)
Load(d) ==
    LET r == load_cloudflare_session(files, d) IN
    /\ files' = r.files
    /\ last' = [NoOp EXCEPT !.op = "load", !.domain = d, !.pre = files[get_session_path(d)],
                            !.ok = r.ret.ok, !.cookies = r.ret.cookies,
                            !.created = r.ret.created,
                            !.othersKept = OthersKept(files, r.files, d)]
    /\ prev' = Summary(last)
    /\ UNCHANGED <<cleared, savedBy>>
    /\ UNCHANGED nonStoreVars

\* clear(domain)
Clear(d) ==
    LET r == clear_session(files, d) IN
    /\ files' = r.files
    /\ last' = [NoOp EXCEPT !.op = "clear", !.domain = d, !.pre = files[get_session_path(d)],
                            !.ok = r.ret,
                            !.othersKept = OthersKept(files, r.files, d)]
    /\ prev' = Summary(last)
    /\ cleared' = [cleared EXCEPT ![d] = TRUE]
    /\ UNCHANGED savedBy
    /\ UNCHANGED nonStoreVars

\* info(domain)
Info(d) ==
    LET r == get_session_info(files, d) IN
    /\ files' = r.files
    /\ last' = [NoOp EXCEPT !.op = "info", !.domain = d, !.pre = files[get_session_path(d)],
                            !.ok = r.ret.exists, !.info = r.ret,
                            !.othersKept = OthersKept(files, r.files, d)]
    /\ prev' = Summary(last)
    /\ UNCHANGED <<cleared, savedBy>>
    /\ UNCHANGED nonStoreVars

\* A session file written earlier is damaged on disk (truncated, overwritten).
DamageFile(p, c) ==
    /\ files[p].kind = "state"
    /\ files' = [files EXCEPT ![p] = c]
    /\ last' = [NoOp EXCEPT !.op = "damage", !.pre = files[p]]
    /\ prev' = Summary(last)
    /\ UNCHANGED <<cleared, savedBy>>
    /\ UNCHANGED nonStoreVars

(***************************************************************************)
(* Challenge detector (cloudflare_utils.is_session_valid)                  *)
(***************************************************************************)
\* Python's `p in s` on strings
Contains(s, p) ==
    \/ p = <<>>
    \/ \E i \in 1..(Len(s) - Len(p) + 1) : s[i] = p[1] /\ SubSeq(s, i, i + Len(p) - 1) = p

\* default of the parameter challenge_url_pattern
challenge_url_pattern == <<"c","h","a","l","l","e","n","g","e","s",".","c","l","o","u","d","f","l","a","r","e",".","c","o","m">>

challenge_indicators == <<
    <<"c","h","e","c","k","i","n","g"," ","y","o","u","r"," ","b","r","o","w","s","e","r">>,
    <<"j","u","s","t"," ","a"," ","m","o","m","e","n","t">>,
    <<"c","f","-","c","h","a","l","l","e","n","g","e">>,
    <<"c","f","-","b","r","o","w","s","e","r","-","v","e","r","i","f","i","c","a","t","i","o","n">>,
    <<"t","u","r","n","s","t","i","l","e">> >>

\* Variant: only the rendered text is searched.
indicator_found_text_only(page_text, page_content) ==
    \E k \in DOMAIN challenge_indicators :
        Contains(lower(page_text), challenge_indicators[k])

\* the loop over challenge_indicators: some indicator is in page_text.lower()
\* or in page_content.lower()
indicator_found(page_text, page_content) ==
    \E k \in DOMAIN challenge_indicators :
        \/ Contains(lower(page_text), challenge_indicators[k])
        \/ Contains(lower(page_content), challenge_indicators[k])

\* Variant: a fault while checking the content ends the call with False.
after_content_fault_reject == "reject"

\* `except Exception` of the content check: the fault is logged and control
\* falls through to the second URL check.
after_content_fault == "final"

\* URLs, markups and rendered texts a page can show.
SiteUrl == <<"h","t","t","p","s",":","/","/","s",".","t","e","s","t","/","s","e","a","r","c","h">>
ChallengeUrl == <<"h","t","t","p","s",":","/","/","c","h","a","l","l","e","n","g","e","s",".","c","l","o","u","d","f","l","a","r","e",".","c","o","m","/","x">>
MixedCaseUrl == <<"h","t","t","p","s",":","/","/","s",".","t","e","s","t","/","C","h","a","l","l","e","n","g","e","s",".","C","l","o","u","d","f","l","a","r","e",".","c","o","m">>
Urls == {SiteUrl, ChallengeUrl, MixedCaseUrl}

Markups == {<<"<","p",">","S","e","a","r","c","h","<","/","p",">">>,
            <<"<","t","i","t","l","e",">","J","u","s","t"," ","a"," ","m","o","m","e","n","t",".",".",".","<","/","t","i","t","l","e",">">>,
            <<"<","d","i","v"," ","c","l","a","s","s","=","c","f","-","t","u","r","n","s","t","i","l","e",">">>}

Texts == {<<"S","e","a","r","c","h">>,
          <<"C","h","e","c","k","i","n","g"," ","Y","o","u","r"," ","B","r","o","w","s","e","r">>,
          <<"V","e","r","i","f","y"," ","w","i","t","h"," ","T","U","R","N","S","T","I","L","E">>}

Pages == [url : Urls, markup : Markups, text : Texts]

IdleCall == [pc |-> "idle", n |-> 0, entryUrl |-> <<>>, page_content |-> <<>>,
             waited |-> FALSE, readMarkup |-> FALSE, readText |-> FALSE,
             fault |-> FALSE, seenMarkup |-> <<>>, seenText |-> <<>>,
             finalUrl |-> <<>>, result |-> FALSE, changed |-> FALSE]

\* the call returns `r`
Return(frame, r) ==
    /\ iv' = [frame EXCEPT !.pc = "done", !.result = r]
    /\ streak' = IF frame.changed THEN streak
                 ELSE IF Len(streak) = 2 THEN <<streak[2], r>>
                 ELSE Append(streak, r)

\* the content check was left by an exception
ContentFault(frame) ==
    LET f == [frame EXCEPT !.fault = TRUE,
                           !.seenMarkup = IF frame.readMarkup THEN @ ELSE page.markup,
                           !.seenText = page.text]
    IN  IF after_content_fault = "final"
        THEN iv' = [f EXCEPT !.pc = "final"] /\ UNCHANGED streak
        ELSE Return(f, FALSE)

\* current_url = page.url; the first URL test
IsValidEntry ==
    /\ iv.pc \in {"idle", "done"}
    /\ LET frame == [IdleCall EXCEPT !.n = 1 - iv.n, !.entryUrl = page.url] IN
        IF Contains(page.url, challenge_url_pattern)
        THEN Return(frame, FALSE)
        ELSE iv' = [frame EXCEPT !.pc = "wait"] /\ UNCHANGED streak
    /\ UNCHANGED page
    /\ UNCHANGED nonDetVars

\* await page.wait_for_timeout(2000)
IsValidWait(fault) ==
    /\ iv.pc = "wait"
    /\ IF fault
       THEN ContentFault(iv)
       ELSE iv' = [iv EXCEPT !.pc = "content", !.waited = TRUE] /\ UNCHANGED streak
    /\ UNCHANGED page
    /\ UNCHANGED nonDetVars

\* page_content = await page.content()
IsValidContent(fault) ==
    /\ iv.pc = "content"
    /\ IF fault
       THEN ContentFault(iv)
       ELSE iv' = [iv EXCEPT !.pc = "text", !.page_content = page.markup,
                             !.readMarkup = TRUE, !.seenMarkup = page.markup]
            /\ UNCHANGED streak
    /\ UNCHANGED page
    /\ UNCHANGED nonDetVars

\* page_text = (await page.evaluate(...)).lower(), then the loop over the indicators
IsValidText(fault) ==
    /\ iv.pc = "text"
    /\ IF fault
       THEN ContentFault(iv)
       ELSE LET page_text == lower(page.text)
                frame == [iv EXCEPT !.readText = TRUE, !.seenText = page.text]
            IN  IF indicator_found(page_text, iv.page_content)
                THEN Return(frame, FALSE)
                ELSE iv' = [frame EXCEPT !.pc = "final"] /\ UNCHANGED streak
    /\ UNCHANGED page
    /\ UNCHANGED nonDetVars

\* Variant: the URL is not looked at again after the wait.
second_url_check_skipped(final_url) == TRUE

\* the value returned after the content check: False when final_url contains
\* the pattern, True otherwise
second_url_check(final_url) == ~Contains(final_url, challenge_url_pattern)

\* final_url = page.url; the second URL test
IsValidFinal ==
    /\ iv.pc = "final"
    /\ Return([iv EXCEPT !.finalUrl = page.url], second_url_check(page.url))
    /\ UNCHANGED page
    /\ UNCHANGED nonDetVars

\* The page navigates or its document changes (a redirect, a challenge that
\* appears, a challenge that clears), at any time.
PageChange(p) ==
    /\ p # page
    /\ page' = p
    /\ iv' = [iv EXCEPT !.changed = TRUE]
    /\ streak' = <<>>
    /\ UNCHANGED nonDetVars

(***************************************************************************)
(* Sitekey extraction (CloudflareTurnstileExtractor)                       *)
(***************************************************************************)
Min(I) == CHOOSE i \in I : \A j \in I : i <= j

IsSpace(c) == c \in {" ", "\t", "\n", "\r"}
IsQuote(c) == c \in {"\"", "'"}

\* character classes of the regular expressions
InClass(c, class) ==
    CASE class = "alnum" -> isalnum(c)             \* [0-9A-Za-z]
      [] class = "notamp" -> c # "&"               \* [^&]
      [] class = "space" -> IsSpace(c)             \* \s
      [] class = "word" -> ~IsQuote(c) /\ ~IsSpace(c)   \* [^"\'\s]

\* first position k >= j of s whose character is not in the class, Len(s)+1 if none
RECURSIVE RunEnd(_, _, _)
RunEnd(s, j, class) ==
    IF j > Len(s) \/ ~InClass(s[j], class) THEN j ELSE RunEnd(s, j + 1, class)

\* the regular expression 0x[0-9A-Za-z]{20,} (IGNORECASE) matches at i
IsKeyAt(s, i) ==
    /\ i >= 1 /\ i + 1 <= Len(s)
    /\ s[i] = "0" /\ s[i + 1] \in {"x", "X"}
    /\ RunEnd(s, i + 2, "alnum") - (i + 2) >= 20

\* the text matched at i: greedy, up to the end of the alphanumeric run
KeyAt(s, i) == SubSeq(s, i, RunEnd(s, i + 2, "alnum") - 1)

\* re.search(r'0x[0-9A-Za-z]{20,}', s, re.IGNORECASE): group(0), <<>> if no match
search_key(s) ==
    LET I == {i \in 1..Len(s) : IsKeyAt(s, i)} IN
    IF I = {} THEN <<>> ELSE KeyAt(s, Min(I))

\* re.search(r'/(0x[0-9A-Za-z]{20,})/', url, re.IGNORECASE): group(1)
search_path_segment(url) ==
    LET I == {i \in 1..Len(url) :
                /\ url[i] = "/" /\ IsKeyAt(url, i + 1)
                /\ RunEnd(url, i + 3, "alnum") <= Len(url)
                /\ url[RunEnd(url, i + 3, "alnum")] = "/"}
    IN  IF I = {} THEN <<>> ELSE KeyAt(url, Min(I) + 1)

\* re.search(r'/(0x[0-9A-Za-z]{20,})(?:/|$)', url, re.IGNORECASE): group(1)
search_path_end(url) ==
    LET I == {i \in 1..Len(url) :
                /\ url[i] = "/" /\ IsKeyAt(url, i + 1)
                /\ \/ RunEnd(url, i + 3, "alnum") = Len(url) + 1
                   \/ url[RunEnd(url, i + 3, "alnum")] = "/"}
    IN  IF I = {} THEN <<>> ELSE KeyAt(url, Min(I) + 1)

\* re.search(r'sitekey=([^&]+)', url, re.IGNORECASE): group(1)
search_query_param(url) ==
    LET lit == <<"s","i","t","e","k","e","y","=">>
        I == {i \in 1..Len(url) :
                /\ i + Len(lit) <= Len(url)
                /\ LowerChar(url[i]) = lit[1]
                /\ lower(SubSeq(url, i, i + Len(lit) - 1)) = lit
                /\ url[i + Len(lit)] # "&"}
    IN  IF I = {} THEN <<>>
        ELSE LET b == Min(I) + Len(lit) IN SubSeq(url, b, RunEnd(url, b, "notamp") - 1)

\* where the group of sitekey["\']?\s*[:=]\s*["\']?([^"\'\s]+) starts when the
\* expression is tried at i, 0 if it does not match there
ParamGroupStart(s, i) ==
    LET lit == <<"s","i","t","e","k","e","y">>
        a == i + Len(lit)
        b == IF a <= Len(s) /\ IsQuote(s[a]) THEN a + 1 ELSE a
        c == RunEnd(s, b, "space")
        d == RunEnd(s, c + 1, "space")
        e == IF d <= Len(s) /\ IsQuote(s[d]) THEN d + 1 ELSE d
    IN  IF /\ a - 1 <= Len(s)
           /\ LowerChar(s[i]) = lit[1]
           /\ lower(SubSeq(s, i, a - 1)) = lit
           /\ c <= Len(s) /\ s[c] \in {":", "="}
           /\ e <= Len(s) /\ InClass(s[e], "word")
        THEN e ELSE 0

\* re.search(r'sitekey["\']?\s*[:=]\s*["\']?([^"\'\s]+)', s, re.IGNORECASE): group(1)
search_param(s) ==
    LET I == {i \in 1..Len(s) : ParamGroupStart(s, i) # 0} IN
    IF I = {} THEN <<>>
    ELSE LET b == ParamGroupStart(s, Min(I)) IN
         SubSeq(s, b, RunEnd(s, b, "word") - 1)

turnstile == <<"t","u","r","n","s","t","i","l","e">>

\* Variant: a candidate is returned without asking the validator.
IfValid_unchecked(candidate) == candidate

\* a candidate, if it is valid; <<>> (None) otherwise
IfValid(candidate) ==
    IF is_valid_turnstile_sitekey(candidate) THEN candidate ELSE <<>>

\* the first of the candidates that is not <<>>, <<>> if none
FirstOf(cands) ==
    LET I == {i \in DOMAIN cands : cands[i] # <<>>} IN
    IF I = {} THEN <<>> ELSE cands[Min(I)]

\* Variant: the query parameter is tried before the path.
extract_sitekey_from_url_query_first(url) ==
    IF url = <<>> \/ ~Contains(lower(url), turnstile)
    THEN <<>>
    ELSE FirstOf(<<IfValid(search_query_param(url)),
                   IfValid(search_path_segment(url)),
                   IfValid(search_path_end(url))>>)

\* CloudflareTurnstileExtractor._extract_sitekey_from_url
extract_sitekey_from_url(url) ==
    IF url = <<>> \/ ~Contains(lower(url), turnstile)
    THEN <<>>
    ELSE FirstOf(<<IfValid(search_path_segment(url)),
                   IfValid(search_path_end(url)),
                   IfValid(search_query_param(url))>>)

\* the two searches made in a POST body or a response body
extract_from_text(text) ==
    FirstOf(<<IfValid(search_key(text)), IfValid(search_param(text))>>)

sitekey_word == <<"s","i","t","e","k","e","y">>

\* one iteration of `for key, value in headers.items()`
extract_from_header(h) ==
    FirstOf(<<IF Contains(lower(h.key), sitekey_word) THEN IfValid(h.value) ELSE <<>>,
              IfValid(search_key(h.value))>>)

\* Variant: the POST body and the response body are searched whatever the URL.
extract_sitekey_from_network_data_untagged(data) ==
    FirstOf(<<IfValid(extract_sitekey_from_url(data.url)),
              IF data.post_data # <<>>
                THEN extract_from_text(data.post_data) ELSE <<>>,
              IF data.body # <<>>
                THEN extract_from_text(data.body) ELSE <<>>,
              FirstOf([i \in DOMAIN data.headers |-> extract_from_header(data.headers[i])])>>)

\* CloudflareTurnstileExtractor._extract_sitekey_from_network_data; a field
\* the dict does not hold is <<>> (post_data, body) or the empty list (headers)
extract_sitekey_from_network_data(data) ==
    LET tagged == Contains(lower(data.url), turnstile) IN
    FirstOf(<<IfValid(extract_sitekey_from_url(data.url)),
              IF data.post_data # <<>> /\ tagged
                THEN extract_from_text(data.post_data) ELSE <<>>,
              IF data.body # <<>> /\ tagged
                THEN extract_from_text(data.body) ELSE <<>>,
              FirstOf([i \in DOMAIN data.headers |-> extract_from_header(data.headers[i])])>>)

(***************************************************************************)
(* Network observers and get_sitekey (CloudflareTurnstileExtractor)        *)
(***************************************************************************)
\* Largest number of extractor objects constructed.
MaxExtractors == 2
\* Largest number of network events emitted.
MaxEvents == 3

ExtractorIds == 1..MaxExtractors
PageIds == {"p1"}

challenge_host == <<"c","h","a","l","l","e","n","g","e","s",".","c","l","o","u","d","f","l","a","r","e",".","c","o","m">>

\* response bodies are kept up to this many characters: body[:1000]
BodyLimit == 1000

OtherSitekey == <<"0", "X">> \o [i \in 1..22 |-> "b"]

Header(k, v) == [key |-> k, value |-> v]

\* Network events the browser can emit.
NetEvent(k, u, hs, pd, b) ==
    [kind |-> k, url |-> u, headers |-> hs, post_data |-> pd, body |-> b]

EvTurnstilePath ==
    NetEvent("request",
             <<"h","t","t","p","s",":","/","/","c","h","a","l","l","e","n","g","e","s",".","c","l","o","u","d","f","l","a","r","e",".","c","o","m","/","t","u","r","n","s","t","i","l","e","/","v","0","/">> \o KnownSitekey \o <<"/","l","i","g","h","t","?","s","i","t","e","k","e","y","=">> \o OtherSitekey,
             <<>>, <<>>, <<>>)
EvUnrelated ==
    NetEvent("request", <<"h","t","t","p","s",":","/","/","s",".","t","e","s","t","/","s","e","a","r","c","h">>, <<Header(<<"x","-","s","i","t","e","k","e","y">>, OtherSitekey)>>, <<>>, <<>>)
EvHostRequest ==
    NetEvent("request", <<"h","t","t","p","s",":","/","/","c","h","a","l","l","e","n","g","e","s",".","c","l","o","u","d","f","l","a","r","e",".","c","o","m","/","c","d","n","-","c","g","i","/","x">>, <<Header(<<"x","-","s","i","t","e","k","e","y">>, OtherSitekey)>>, <<>>, <<>>)
EvTurnstileBody ==
    NetEvent("response", <<"h","t","t","p","s",":","/","/","s",".","t","e","s","t","/","T","u","r","n","s","t","i","l","e","/","a","p","i">>, <<>>, <<>>, <<"s","i","t","e","k","e","y",":"," ","'">> \o KnownSitekey \o <<"'">>)

\* a Turnstile request whose only candidate is not a sitekey
EvBadParam ==
    NetEvent("request", <<"h","t","t","p","s",":","/","/","s",".","t","e","s","t","/","t","u","r","n","s","t","i","l","e">>, <<>>, <<"s","i","t","e","k","e","y","=","0","x","b","a","d">>, <<>>)

NetEvents == {EvTurnstilePath, EvUnrelated, EvHostRequest, EvTurnstileBody, EvBadParam}

\* Variant: the handlers inspect every event.
in_scope_any(url) == TRUE

\* the test both handlers make on the URL
in_scope(url) == Contains(url, challenge_host) \/ Contains(lower(url), turnstile)

\* The dicts the handlers can build from the events (with the response body
\* read or not), and the values the code computes from them: each is computed
\* once and looked up afterwards.
InfoOf(ev, body_ok) ==
    [url |-> ev.url, headers |-> ev.headers,
     post_data |-> IF ev.kind = "request" THEN ev.post_data ELSE <<>>,
     body |-> IF ev.kind = "response" /\ body_ok
              THEN (IF Len(ev.body) > BodyLimit THEN SubSeq(ev.body, 1, BodyLimit) ELSE ev.body)
              ELSE <<>>]

Infos == {InfoOf(ev, body_ok) : ev \in NetEvents, body_ok \in BOOLEAN}
InScopeOf == [u \in {ev.url : ev \in NetEvents} |-> in_scope(u)]
IsTurnstileOf == [u \in {ev.url : ev \in NetEvents} |-> Contains(lower(u), turnstile)]
SitekeyOf == [d \in Infos |-> extract_sitekey_from_network_data(d)]

\* CloudflareTurnstileExtractor.__init__
NewObject(p) == [alive |-> TRUE, page |-> p, captured_requests |-> <<>>,
                 sitekey_from_network |-> <<>>, monitoring_setup |-> FALSE]

Unbuilt == [alive |-> FALSE, page |-> "", captured_requests |-> <<>>,
            sitekey_from_network |-> <<>>, monitoring_setup |-> FALSE]

\* handle_request, a closure over the extractor `self`
handle_request(self, request) ==
    IF InScopeOf[request.url]
    THEN LET request_info == InfoOf(request, TRUE)
             sitekey == SitekeyOf[request_info]
         IN  [self EXCEPT !.captured_requests = Append(@, request_info),
                          !.sitekey_from_network = IF sitekey # <<>> THEN sitekey ELSE @]
    ELSE self

\* handle_response, a closure over the extractor `self`, from the point where
\* `await response.text()` has answered; body_ok is whether it returned
handle_response(self, response, body_ok) ==
    IF InScopeOf[response.url]
    THEN LET response_info == InfoOf(response, body_ok)
             sitekey == SitekeyOf[response_info]
         IN  [self EXCEPT !.sitekey_from_network = IF sitekey # <<>> THEN sitekey ELSE @]
    ELSE self

Listener(ev, e) == [event |-> ev, self |-> e]

\* Variant: listeners are registered once per page, whichever extractor asks.
setup_once_per_page(hs, self, e) ==
    IF self.monitoring_setup \/ hs # <<>>
    THEN [handlers |-> hs, self |-> self]
    ELSE [handlers |-> hs \o <<Listener("request", e), Listener("response", e)>>,
          self |-> [self EXCEPT !.monitoring_setup = TRUE]]

\* setup_network_monitoring: hs are the listeners of the page, self the
\* extractor (object number e)
setup_network_monitoring(hs, self, e) ==
    IF self.monitoring_setup
    THEN [handlers |-> hs, self |-> self]
    ELSE [handlers |-> hs \o <<Listener("request", e), Listener("response", e)>>,
          self |-> [self EXCEPT !.monitoring_setup = TRUE]]

\* handle_response stops at `await response.text()` when the URL is in scope;
\* handle_request has no await
suspends(h, ev) == h.event = "response" /\ ev.kind = "response" /\ InScopeOf[ev.url]

\* a response handler stopped at its await: the extractor it closes over, the
\* response, whether response.text() is going to return, and whether the
\* handler of a later event has written the extractor's sitekey_from_network
\* since
Suspended(e, ev, body_ok) ==
    [self |-> e, response |-> ev, body_ok |-> body_ok, overtaken |-> FALSE]

\* the listeners of the event's kind run in registration order, each up to its
\* end or its first await
RECURSIVE Dispatch(_, _, _, _)
Dispatch(objs, hs, ev, body_ok) ==
    IF hs = <<>> THEN objs
    ELSE LET h == Head(hs)
             objs2 == IF h.event # ev.kind \/ suspends(h, ev) THEN objs
                      ELSE IF ev.kind = "request"
                      THEN [objs EXCEPT ![h.self] = handle_request(@, ev)]
                      ELSE [objs EXCEPT ![h.self] = handle_response(@, ev, body_ok)]
         IN  Dispatch(objs2, Tail(hs), ev, body_ok)

\* the handlers the event leaves waiting, in registration order
Waiting(hs, ev, body_ok) ==
    LET stopped == SelectSeq(hs, LAMBDA h : suspends(h, ev)) IN
    [i \in DOMAIN stopped |-> Suspended(stopped[i].self, ev, body_ok)]

\* the waiting handlers, once a handler of extractor e has written its
\* sitekey_from_network: those of e among the first `upto` are overtaken
Overtake(waiting, e, upto) ==
    [i \in DOMAIN waiting |->
        IF waiting[i].self = e /\ i <= upto
        THEN [waiting[i] EXCEPT !.overtaken = TRUE]
        ELSE waiting[i]]

\* waiting without its i-th handler
Without(waiting, i) == SubSeq(waiting, 1, i - 1) \o SubSeq(waiting, i + 1, Len(waiting))

IsTurnstile(req) == IsTurnstileOf[req.url]
IsOther(req) == ~IsTurnstile(req)

\* the pass over captured_requests: Turnstile requests first, then the others
scan_captured(captured) ==
    LET ordered == SelectSeq(captured, IsTurnstile) \o SelectSeq(captured, IsOther) IN
    FirstOf([i \in DOMAIN ordered |-> IfValid(SitekeyOf[ordered[i]])])

IdleGet == [pc |-> "idle", e |-> 0, result |-> <<>>]

\* History of the events. ignored: a listener was handed an event whose URL
\* names neither the challenge host nor Turnstile; yielded: for each extractor
\* whether one of its listeners was handed an event in scope from which the
\* extraction returned a candidate.
\* arrived: for each extractor the events in scope its listeners were handed,
\* in arrival order, as the dicts the handlers build from them. stale: a
\* handler wrote the extractor's sitekey_from_network although the handler of
\* a later event had written it before.
NothingSeen ==
    [ignored |-> FALSE, yielded |-> [e \in ExtractorIds |-> FALSE],
     arrived |-> [e \in ExtractorIds |-> <<>>],
     stale |-> [e \in ExtractorIds |-> FALSE]]

OutOfScopeOf ==
    [u \in {ev.url : ev \in NetEvents} |->
        ~Contains(u, challenge_host) /\ ~Contains(lower(u), turnstile)]

ListensTo(p, e, kind) ==
    \E i \in DOMAIN handlers[p] : handlers[p][i] = Listener(kind, e)

\* extractor = CloudflareTurnstileExtractor(), made for use on page p
NewExtractor(e, p) ==
    /\ ~ext[e].alive
    /\ \A e2 \in ExtractorIds : e2 < e => ext[e2].alive
    /\ ext' = [ext EXCEPT ![e] = NewObject(p)]
    /\ UNCHANGED <<handlers, gs, emitted, lastRuns, seen, pending>>
    /\ UNCHANGED nonObsVars

\* await extractor.setup_network_monitoring(page)
SetupNetworkMonitoring(e) ==
    /\ ext[e].alive
    /\ LET r == setup_network_monitoring(handlers[ext[e].page], ext[e], e) IN
        /\ handlers' = [handlers EXCEPT ![ext[e].page] = r.handlers]
        /\ ext' = [ext EXCEPT ![e] = r.self]
    /\ UNCHANGED <<gs, emitted, lastRuns, seen, pending>>
    /\ UNCHANGED nonObsVars

\* get_sitekey up to its wait: the cached value, the pass over what is
\* captured, then setup_network_monitoring and page.wait_for_timeout
GetSitekeyStart(e) ==
    /\ gs.pc \in {"idle", "done"}
    /\ ext[e].alive
    /\ LET self == ext[e]
           found == scan_captured(self.captured_requests)
           r == setup_network_monitoring(handlers[self.page], self, e)
       IN  IF self.sitekey_from_network # <<>>
           THEN /\ gs' = [pc |-> "done", e |-> e, result |-> self.sitekey_from_network]
                /\ UNCHANGED <<ext, handlers>>
           ELSE IF found # <<>>
           THEN /\ gs' = [pc |-> "done", e |-> e, result |-> found]
                /\ ext' = [ext EXCEPT ![e].sitekey_from_network = found]
                /\ UNCHANGED handlers
           ELSE /\ gs' = [pc |-> "wait", e |-> e, result |-> <<>>]
                /\ handlers' = [handlers EXCEPT ![self.page] = r.handlers]
                /\ ext' = [ext EXCEPT ![e] = r.self]
    /\ UNCHANGED <<emitted, lastRuns, seen, pending>>
    /\ UNCHANGED nonObsVars

\* get_sitekey after its wait: the cached value, then the final pass
GetSitekeyResume ==
    /\ gs.pc = "wait"
    /\ LET self == ext[gs.e]
           found == scan_captured(self.captured_requests)
       IN  IF self.sitekey_from_network # <<>>
           THEN /\ gs' = [gs EXCEPT !.pc = "done", !.result = self.sitekey_from_network]
                /\ UNCHANGED ext
           ELSE /\ gs' = [gs EXCEPT !.pc = "done", !.result = found]
                /\ ext' = [ext EXCEPT ![gs.e].sitekey_from_network = found]
    /\ UNCHANGED <<handlers, emitted, lastRuns, seen, pending>>
    /\ UNCHANGED nonObsVars

\* the browser emits a request or response on page p
NetworkEvent(p, ev, body_ok) ==
    /\ emitted < MaxEvents
    /\ emitted' = emitted + 1
    /\ ext' = Dispatch(ext, handlers[p], ev, body_ok)
    /\ LET writers == {e \in ExtractorIds :
                          /\ ListensTo(p, e, ev.kind) /\ ev.kind = "request"
                          /\ InScopeOf[ev.url] /\ SitekeyOf[InfoOf(ev, TRUE)] # <<>>}
       IN  pending' = [i \in DOMAIN pending |->
                          IF pending[i].self \in writers
                          THEN [pending[i] EXCEPT !.overtaken = TRUE]
                          ELSE pending[i]]
                      \o Waiting(handlers[p], ev, body_ok)
    /\ lastRuns' = Len(SelectSeq(handlers[p], LAMBDA h : h.event = ev.kind))
    /\ seen' = [ignored |-> seen.ignored \/ (OutOfScopeOf[ev.url] /\ lastRuns' >= 1),
                yielded |-> [e \in ExtractorIds |->
                    \/ seen.yielded[e]
                    \/ /\ ListensTo(p, e, ev.kind)
                       /\ InScopeOf[ev.url]
                       /\ SitekeyOf[InfoOf(ev, body_ok)] # <<>>],
                arrived |-> [e \in ExtractorIds |->
                    IF ListensTo(p, e, ev.kind) /\ InScopeOf[ev.url]
                    THEN Append(seen.arrived[e], InfoOf(ev, body_ok))
                    ELSE seen.arrived[e]],
                stale |-> seen.stale]
    /\ UNCHANGED <<handlers, gs>>
    /\ UNCHANGED nonObsVars

\* `await response.text()` answers in a waiting handle_response, which runs to
\* its end
ResponseText(i) ==
    /\ i \in DOMAIN pending
    /\ LET h == pending[i]
           writes == SitekeyOf[InfoOf(h.response, h.body_ok)] # <<>>
       IN  /\ ext' = [ext EXCEPT ![h.self] = handle_response(@, h.response, h.body_ok)]
           /\ pending' = Without(IF writes THEN Overtake(pending, h.self, i - 1) ELSE pending, i)
           /\ seen' = [seen EXCEPT !.stale[h.self] = @ \/ (writes /\ h.overtaken)]
    /\ UNCHANGED <<handlers, gs, emitted, lastRuns>>
    /\ UNCHANGED nonObsVars

(***************************************************************************)
(* URL extraction applied to one URL                                       *)
(***************************************************************************)
NotCalled == [called |-> FALSE, value |-> <<>>]

\* URLs are put together from a base, up to two further path segments, the
\* rest of the path and a query string.
UrlBases == {<<"h","t","t","p","s",":","/","/","c",".","t","e","s","t","/","t","u","r","n","s","t","i","l","e","/","v","0">>,
             <<"h","t","t","p","s",":","/","/","c",".","t","e","s","t","/","T","u","r","n","s","t","i","l","e","/","v","0">>,
             <<"h","t","t","p","s",":","/","/","c",".","t","e","s","t","/","a","p","i","/","v","0">>}

\* a string of the sitekey's shape that is too long to be one
LongKey == <<"0", "x">> \o [i \in 1..34 |-> "c"]

UrlSegments == {<<>>, KnownSitekey, OtherSitekey, LongKey, <<"0","x","1","2">>}

UrlTails == {<<>>, <<"/">>, <<"/","l","i","g","h","t">>}

UrlQueries == {<<>>,
               <<"?","s","i","t","e","k","e","y","=">> \o OtherSitekey,
               <<"?","l","a","n","g","=","a","u","t","o","&","s","i","t","e","k","e","y","=">> \o KnownSitekey,
               <<"?","s","i","t","e","k","e","y","=","0","x","b","a","d">>}

Slash(seg) == IF seg = <<>> THEN <<>> ELSE <<"/">> \o seg

UrlOf(base, seg1, seg2, tail, query) ==
    base \o Slash(seg1) \o Slash(seg2) \o tail \o query

UrlInputs ==
    {[url |-> UrlOf(b, s1, s2, t, qs), segments |-> {s1, s2} \ {<<>>}, query |-> qs] :
        b \in UrlBases, s1 \in UrlSegments, s2 \in UrlSegments,
        t \in UrlTails, qs \in UrlQueries}

\* sitekey = self._extract_sitekey_from_url(url)
ExtractFromUrl ==
    /\ ~xOut.called
    /\ xOut' = [called |-> TRUE, value |-> extract_sitekey_from_url(xIn.url)]
    /\ UNCHANGED xIn
    /\ UNCHANGED nonUrlVars

(***************************************************************************)
(* Network-data extraction applied to one dict                             *)
(***************************************************************************)
\* Each source of a dict carries a sitekey of its own, so that the result
\* tells which source it came from.
PostSitekey == <<"0", "x">> \o [i \in 1..22 |-> "p"]
BodySitekey == <<"0", "X">> \o [i \in 1..22 |-> "r"]

DataUrls == {EvTurnstilePath.url, EvBadParam.url, EvTurnstileBody.url,
             EvHostRequest.url, EvUnrelated.url}

DataTexts(sitekey) ==
    {<<>>,
     <<"s","i","t","e","k","e","y","=">> \o sitekey,
     <<"{","'","k","'",":","'">> \o sitekey \o <<"'","}">>,
     <<"s","i","t","e","k","e","y","=","0","x","b","a","d">>}

DataHeaders == {<<>>,
                <<Header(<<"x","-","s","i","t","e","k","e","y">>, OtherSitekey)>>,
                <<Header(<<"a","c","c","e","p","t">>, <<"*","/","*">>),
                  Header(<<"r","e","f","e","r","e","r">>, <<"k","="," ">> \o OtherSitekey)>>,
                <<Header(<<"s","i","t","e","k","e","y">>, <<"0","x","b","a","d">>)>>}

\* the dicts handed to _extract_sitekey_from_network_data
DataInputs ==
    {[url |-> u, headers |-> hs, post_data |-> pd, body |-> b] :
        u \in DataUrls, hs \in DataHeaders,
        pd \in DataTexts(PostSitekey), b \in DataTexts(BodySitekey)}

\* sitekey = self._extract_sitekey_from_network_data(data)
ExtractFromNetworkData ==
    /\ ~xOut.called
    /\ xOut' = [called |-> TRUE, value |-> extract_sitekey_from_network_data(xIn)]
    /\ UNCHANGED xIn
    /\ UNCHANGED nonUrlVars

(***************************************************************************)
(* solve_cloudflare_challenge                                              *)
(***************************************************************************)
\* for attempt in range(30)
MaxAttempts == 30
\* await asyncio.sleep(5)
PollInterval == 5

\* A Python value that is None or a string.
PyNone == [set |-> FALSE, val |-> ""]
Str(v) == [set |-> TRUE, val |-> v]
truthy(x) == x.set /\ x.val # ""

\* Variant: every non-empty parameter is sent, the string 'null' included.
wanted_nonempty(x) == truthy(x)

\* `if action and action not in [None, 'null', '']`
wanted(x) == truthy(x) /\ x \notin {PyNone, Str("null"), Str("")}

TaskType == "TurnstileTaskProxyless"

Put(payload, key, value) == (key :> value) @@ payload

\* turnstile_params is None, or a dict whose get() gives these values
NoParams == [given |-> FALSE, action |-> PyNone, cData |-> PyNone, chlPageData |-> PyNone]

PutIfWanted(payload, key, x) == IF wanted(x) THEN Put(payload, key, x.val) ELSE payload

\* task_payload as it is when it is sent
task_payload(website_url, sitekey, browser_user_agent, turnstile_params) ==
    LET p0 == Put(Put(Put(<<>>, "type", TaskType), "websiteURL", website_url),
                  "websiteKey", sitekey)
        p1 == IF browser_user_agent # "" THEN Put(p0, "userAgent", browser_user_agent) ELSE p0
    IN  IF ~turnstile_params.given THEN p1
        ELSE PutIfWanted(PutIfWanted(PutIfWanted(p1, "action", turnstile_params.action),
                                     "data", turnstile_params.cData),
                         "pagedata", turnstile_params.chlPageData)

ParamValues == {PyNone, Str(""), Str("null"), Str("v")}

AllParams ==
    {NoParams} \cup
    {[given |-> TRUE, action |-> a, cData |-> c, chlPageData |-> d] :
        a \in ParamValues, c \in ParamValues, d \in ParamValues}

\* the parameters used where the poll loop, not the payload, is examined
FewParams == {NoParams, [given |-> TRUE, action |-> Str("v"), cData |-> Str("null"), chlPageData |-> PyNone]}

PageUrls == {"https://a.b/BusinessSearch?q=1", "https://a.b/"}
UserAgents == {"", "Mozilla/5.0"}
SolveSitekey == KnownSitekey
ApiKeys == {"", "key"}
Callbacks == {"none", "function"}
SolveDomain == <<"a", ".", "b">>

\* answers of createTask: the HTTP exchange succeeded or not, and the errorId
\* of the JSON answer, if it has one
Ack(http_ok, has_errorId, errorId) ==
    [http_ok |-> http_ok, has_errorId |-> has_errorId, errorId |-> errorId]
Acks == {Ack(TRUE, TRUE, 0), Ack(TRUE, TRUE, 1), Ack(TRUE, FALSE, 0), Ack(FALSE, FALSE, 0)}

\* Variant: the errorId of the answer is not looked at.
create_failed_ignored(create_result) == FALSE

\* `if create_result.get('errorId') != 0`
create_failed(create_result) == ~create_result.has_errorId \/ create_result.errorId # 0

\* answers of getTaskResult: the exchange succeeded or not, the status of the
\* JSON answer ("" when it has none) and the token of its solution ("" when
\* it has none)
PollAnswer(ok, status, token) == [ok |-> ok, status |-> status, token |-> token]
PollAnswers ==
    {PollAnswer(TRUE, "processing", ""), PollAnswer(TRUE, "ready", "0.tok"),
     PollAnswer(TRUE, "ready", ""), PollAnswer(TRUE, "failed", ""),
     PollAnswer(TRUE, "", ""), PollAnswer(FALSE, "", "")}

\* Variant: an unknown status is polled again like 'processing'.
poll_branch_lenient(status) ==
    IF status = "ready" THEN "ready" ELSE "continue"

\* the if / elif / else on the status of a poll answer
poll_branch(status) ==
    IF status = "ready" THEN "ready"
    ELSE IF status = "processing" THEN "continue"
    ELSE "raise"

\* Variant: the credential is not looked at.
solver_available_always(api_key, library) == TRUE

\* `if not api_key or not TWOCAPTCHA_AVAILABLE`, negated
solver_available(api_key, library) == api_key # "" /\ library

\* Variant: the callback of the page is never found.
has_callback_never(callback) == FALSE

\* `window.turnstileParams && window.turnstileParams.callback` is a function
has_callback(callback) == callback = "function"

\* Variant: the session is saved whatever the clearance check says.
challenge_cleared_assumed(valid) == TRUE

\* `if await is_session_valid(page)`
challenge_cleared(valid) == valid

\* What happened since the last poll answer: the token it carried, how far the
\* injection got ("none", "injected", "refused", "faulted", "checked_valid",
\* "checked_invalid"), the arguments the page's callback was called with, and
\* whether a delivery through turnstile.render / execute was attempted.
NoRound == [token |-> "", step |-> "none", args |-> <<>>, fallback |-> FALSE]

\* Of a solve call: ua is what navigator.userAgent answers on the page,
\* overridden / reoverridden whether it was redefined once / more than once,
\* injected / reinvoked whether the page's callback was called once / more than
\* once, saves the calls of save_cloudflare_session and saved whether one
\* returned True.
IdleSolve ==
    [pc |-> "idle", attempt |-> 0, url |-> "", sitekey |-> <<>>, params |-> NoParams,
     payload |-> <<>>, waited |-> 0, injected |-> FALSE, saves |-> 0,
     result |-> FALSE, entryFiles |-> EmptyStore,
     credential |-> FALSE, callback |-> "none", evaluated |-> FALSE,
     round |-> NoRound, notCleared |-> FALSE,
     ua |-> "", overridden |-> FALSE, reoverridden |-> FALSE, reinvoked |-> FALSE,
     saved |-> FALSE]

\* What the solving service was sent and answered in the current call:
\* the task of createTask, whether and how it was answered, the number of getTaskResult
\* requests, the last status answered, and whether a poll was answered
\* 'ready' and whether a poll was sent after that.
FreshService ==
    [task |-> <<>>, sent |-> FALSE, acked |-> FALSE, ack |-> Ack(FALSE, FALSE, 0),
     polls |-> 0, last |-> "none",
     ready |-> FALSE, afterReady |-> FALSE]

\* `return False` from the handler at the end of the function
Fail(frame) == [frame EXCEPT !.pc = "done", !.result = FALSE]

\* Variant: the loop goes round once more.
next_attempt_once_more(frame) ==
    IF frame.attempt + 1 <= MaxAttempts
    THEN [frame EXCEPT !.pc = "sleep", !.attempt = @ + 1]
    ELSE Fail(frame)

\* the end of the loop body: the next round of `for attempt in range(30)`, or
\* the raise after the loop
next_attempt(frame) ==
    IF frame.attempt + 1 < MaxAttempts
    THEN [frame EXCEPT !.pc = "sleep", !.attempt = @ + 1]
    ELSE Fail(frame)

\* solve_cloudflare_challenge up to the createTask request; callback is what
\* window.turnstileParams.callback is on the page
SolveStart(api_key, library, url, sitekey, browser_user_agent, turnstile_params, callback) ==
    /\ sv.pc = "idle"
    /\ IF ~solver_available(api_key, library)
       THEN /\ sv' = Fail([sv EXCEPT !.entryFiles = files,
                                     !.credential = api_key # ""])
            /\ service' = FreshService
       ELSE LET payload == task_payload(url, sitekey, browser_user_agent, turnstile_params) IN
            /\ sv' = [sv EXCEPT !.pc = "submit", !.url = url, !.sitekey = sitekey,
                                !.params = turnstile_params, !.payload = payload,
                                !.entryFiles = files, !.credential = api_key # "",
                                !.callback = callback, !.evaluated = TRUE,
                                !.ua = browser_user_agent]
            /\ service' = [FreshService EXCEPT !.task = payload, !.sent = TRUE]
    /\ UNCHANGED <<valVars, storeVars, detVars, obsVars, urlVars, orcVars, winVars, chkVars>>

\* the answer to createTask
Submit(create_result) ==
    /\ sv.pc = "submit"
    /\ service' = [service EXCEPT !.acked = TRUE, !.ack = create_result]
    /\ sv' = IF ~create_result.http_ok \/ create_failed(create_result)
             THEN Fail(sv)
             ELSE [sv EXCEPT !.pc = "sleep", !.attempt = 0]
    /\ UNCHANGED <<valVars, storeVars, detVars, obsVars, urlVars, orcVars, winVars, chkVars>>

\* await asyncio.sleep(5)
Sleep ==
    /\ sv.pc = "sleep"
    /\ sv' = [sv EXCEPT !.pc = "poll", !.waited = @ + PollInterval]
    /\ UNCHANGED service
    /\ UNCHANGED <<valVars, storeVars, detVars, obsVars, urlVars, orcVars, winVars, chkVars>>

\* one getTaskResult request and the branch taken on its answer
Poll(answer) ==
    /\ sv.pc = "poll"
    /\ service' = [service EXCEPT !.polls = @ + 1,
                                  !.last = IF answer.ok THEN answer.status ELSE "none",
                                  !.ready = @ \/ (answer.ok /\ answer.status = "ready"),
                                  !.afterReady = @ \/ service.ready]
    /\ LET frame == [sv EXCEPT !.round =
                        [NoRound EXCEPT !.token =
                            IF answer.ok /\ answer.status = "ready" THEN answer.token ELSE ""]]
       IN  sv' = IF ~answer.ok THEN Fail(frame)
                 ELSE CASE poll_branch(answer.status) = "ready" ->
                              IF answer.token # "" THEN [frame EXCEPT !.pc = "inject"]
                              ELSE next_attempt(frame)
                        [] poll_branch(answer.status) = "continue" -> next_attempt(frame)
                        [] OTHER -> Fail(frame)
    /\ UNCHANGED <<valVars, storeVars, detVars, obsVars, urlVars, orcVars, winVars, chkVars>>

\* solution.get('userAgent') of a 'ready' answer: absent, the browser's own,
\* or the one the solving worker used
SolutionAgents == {"", "Mozilla/5.0", "Solver/1.0"}

\* `if user_agent:` ... `if current_ua != user_agent:`
override_wanted(user_agent, current_ua) == user_agent # "" /\ current_ua # user_agent

\* navigator.userAgent is redefined to answer the solution's user agent
apply_user_agent(frame, user_agent) ==
    IF override_wanted(user_agent, frame.ua)
    THEN [frame EXCEPT !.ua = user_agent, !.overridden = TRUE,
                       !.reoverridden = @ \/ frame.overridden]
    ELSE frame

\* the token is handed to the page: page.evaluate raises (fault), or the
\* user agent of the solution is applied and the script calls the callback
\* with the token and reports success, or it finds no callback and reports
\* no success
Inject(fault, user_agent) ==
    /\ sv.pc = "inject"
    /\ sv' = IF fault
             THEN Fail([sv EXCEPT !.round.step = "faulted", !.evaluated = TRUE])
             ELSE LET frame == apply_user_agent(sv, user_agent) IN
                  IF has_callback(sv.callback)
                  THEN [frame EXCEPT !.pc = "verify", !.injected = TRUE, !.evaluated = TRUE,
                                     !.reinvoked = @ \/ sv.injected,
                                     !.round.step = "injected",
                                     !.round.args = <<sv.round.token>>]
                  ELSE next_attempt([frame EXCEPT !.round.step = "refused",
                                                  !.evaluated = TRUE])
    /\ UNCHANGED service
    /\ UNCHANGED <<valVars, storeVars, detVars, obsVars, urlVars, orcVars, winVars, chkVars>>

\* `await save_cloudflare_session(context, domain)` then `return True`: what
\* save returned is not looked at
solved_after_save(saved) == TRUE

\* the cookies the context holds when the page is found clear
ContextJars == {<<sid, cf1>>, <<sid>>}

\* is_session_valid(page) after the 4 s wait, then save_cloudflare_session
Verify(valid, cookies, io_ok) ==
    /\ sv.pc = "verify"
    /\ LET frame == [sv EXCEPT !.round.step = IF valid THEN "checked_valid" ELSE "checked_invalid",
                               !.notCleared = @ \/ ~valid]
       IN  IF challenge_cleared(valid)
           THEN LET r == save_cloudflare_session(files, cookies, SolveDomain, io_ok) IN
                /\ files' = r.files
                /\ sv' = [frame EXCEPT !.pc = "done", !.result = solved_after_save(r.ret),
                                        !.saves = @ + 1,
                                        !.saved = r.ret]
           ELSE /\ sv' = next_attempt(frame)
                /\ UNCHANGED files
    /\ UNCHANGED service
    /\ UNCHANGED <<valVars, last, prev, cleared, savedBy, detVars, obsVars, urlVars, orcVars, winVars, chkVars>>

(***************************************************************************)
(* The page window and the render interceptor                              *)
(***************************************************************************)
\* Largest number of render calls the widget makes on one page load.
MaxRenders == 2

\* window.turnstileParams: never assigned, null, or the object the
\* interceptor builds from the options of a render call
SlotUndefined == [set |-> "undefined", sitekey |-> <<>>, callback |-> "none"]
SlotNull == [set |-> "null", sitekey |-> <<>>, callback |-> "none"]

\* options of turnstile.render(container, options)
Options(sitekey, callback) == [sitekey |-> sitekey, callback |-> callback]
NoOptions == Options(<<>>, "none")
RenderOptions == {Options(k, c) : k \in {KnownSitekey, OtherSitekey}, c \in Callbacks}

\* the body of the replaced render: the object written to window.turnstileParams
\* (`callback: options.callback || null`)
captured_params(options) ==
    [set |-> "params", sitekey |-> options.sitekey, callback |-> options.callback]

\* pc is where get_bypassed_page stands with the page: "new" (not navigated),
\* "loading" (page.goto under way), "loaded" (goto and wait_for_load_state
\* have returned), "waiting" (interceptor script evaluated, 10 s wait),
\* "read" (window.turnstileParams read back). turnstile: window.turnstile is
\* defined; interval: the setInterval of the script is running; hooked:
\* window.turnstile.render is the replacement; renders: render calls made by
\* the page; options: those of the last one; missed: a render call ran the
\* original render; slot: window.turnstileParams; read: what the evaluate at
\* the end returned.
IdleWin ==
    [pc |-> "new", turnstile |-> FALSE, interval |-> FALSE, hooked |-> FALSE,
     renders |-> 0, options |-> NoOptions, missed |-> FALSE,
     slot |-> SlotUndefined, read |-> SlotUndefined]

\* await page.goto(target_url): the navigation starts
WinGoto ==
    /\ win.pc = "new"
    /\ win' = [win EXCEPT !.pc = "loading"]
    /\ UNCHANGED <<valVars, storeVars, detVars, obsVars, urlVars, solveVars, orcVars, chkVars>>

\* page.goto and wait_for_load_state("domcontentloaded") return
WinLoaded ==
    /\ win.pc = "loading"
    /\ win' = [win EXCEPT !.pc = "loaded"]
    /\ UNCHANGED <<valVars, storeVars, detVars, obsVars, urlVars, solveVars, orcVars, chkVars>>

\* the page runs the widget's script: window.turnstile is defined
WinScript ==
    /\ win.pc # "new"
    /\ ~win.turnstile
    /\ win' = [win EXCEPT !.turnstile = TRUE]
    /\ UNCHANGED <<valVars, storeVars, detVars, obsVars, urlVars, solveVars, orcVars, chkVars>>

\* the page calls window.turnstile.render(container, options)
WinRender(options) ==
    /\ win.turnstile
    /\ win.renders < MaxRenders
    /\ win' = [win EXCEPT !.renders = @ + 1, !.options = options,
                          !.missed = @ \/ ~win.hooked,
                          !.slot = IF win.hooked THEN captured_params(options) ELSE @]
    /\ UNCHANGED <<valVars, storeVars, detVars, obsVars, urlVars, solveVars, orcVars, chkVars>>

\* page.evaluate of the interceptor script: window.turnstileParams = null and
\* setInterval(..., 10)
WinInject ==
    /\ win.pc = "loaded"
    /\ win' = [win EXCEPT !.pc = "waiting", !.slot = SlotNull, !.interval = TRUE]
    /\ UNCHANGED <<valVars, storeVars, detVars, obsVars, urlVars, solveVars, orcVars, chkVars>>

\* the interval fires with window.turnstile defined: clearInterval and
\* window.turnstile.render is replaced
WinTick ==
    /\ win.interval
    /\ win.turnstile
    /\ win' = [win EXCEPT !.interval = FALSE, !.hooked = TRUE]
    /\ UNCHANGED <<valVars, storeVars, detVars, obsVars, urlVars, solveVars, orcVars, chkVars>>

\* turnstile_params = await page.evaluate("() => window.turnstileParams")
WinRead ==
    /\ win.pc = "waiting"
    /\ win' = [win EXCEPT !.pc = "read", !.read = win.slot]
    /\ UNCHANGED <<valVars, storeVars, detVars, obsVars, urlVars, solveVars, orcVars, chkVars>>

(***************************************************************************)
(* check_and_solve_cloudflare (scrapers.py)                                *)
(***************************************************************************)
\* window.turnstileParams as page.evaluate hands it to Python: None (null or
\* undefined), the empty dict, or a dict with the captured fields, whose
\* sitekey is <<>> when the field is missing or null
SlotEmpty == [set |-> "empty", sitekey |-> <<>>, callback |-> "none"]

ShortSitekey == <<"0","x","b","a","d">>

ExistingParams ==
    {SlotNull, SlotEmpty} \cup
    {captured_params(Options(k, c)) :
        k \in {<<>>, ShortSitekey, KnownSitekey}, c \in Callbacks}

\* truth value of a value read from the slot: None and {} are false, and a
\* dict built by the interceptor is true, since it always holds its five keys
dict_truthy(params) == params.set = "params"

\* existing_params.get('sitekey'), as a truth value
has_sitekey(params) == params.sitekey # <<>>

\* `if not existing_params:`
monitoring_wanted(existing_params) == ~dict_truthy(existing_params)

\* One call of check_and_solve_cloudflare. pc: "idle", "slot" (challenge
\* detected, the slot is about to be read), "extract" (network monitoring set
\* up, get_sitekey called), "solve" (solve_cloudflare_challenge called),
\* "verify" (second is_session_valid called), "done". detected: the first
\* is_session_valid returned False; slot: what the read of
\* window.turnstileParams returned; bound: the local `sitekey` has been
\* assigned; setup: setup_network_monitoring was called; consulted:
\* get_sitekey was called; solved: what solve returned; validAfter: what the
\* second is_session_valid returned; raised: the except branch was taken.
IdleCheck ==
    [pc |-> "idle", detected |-> FALSE, slot |-> SlotUndefined, bound |-> FALSE,
     sitekey |-> <<>>, turnstile_params |-> SlotNull, setup |-> FALSE,
     consulted |-> FALSE, solved |-> FALSE, validAfter |-> FALSE,
     raised |-> FALSE, ret |-> FALSE]

CheckReturn(frame, r) == [frame EXCEPT !.pc = "done", !.ret = r]

\* is_valid = await is_session_valid(page); `if is_valid: return True`
CheckStart(is_valid) ==
    /\ chk.pc = "idle"
    /\ chk' = IF is_valid
              THEN CheckReturn(chk, TRUE)
              ELSE [chk EXCEPT !.pc = "slot", !.detected = TRUE]
    /\ UNCHANGED <<valVars, storeVars, detVars, obsVars, urlVars, solveVars, orcVars, winVars>>

\* from the read of window.turnstileParams to the first await that follows:
\* setup_network_monitoring when monitoring is wanted, and otherwise
\* `if not sitekey`, which raises UnboundLocalError when no branch has
\* assigned `sitekey`; the exception is caught by `except Exception`
CheckSlot(read) ==
    /\ chk.pc = "slot"
    /\ LET usable == dict_truthy(read) /\ has_sitekey(read)
           valid == usable /\ is_valid_turnstile_sitekey(read.sitekey)
           existing_params == IF usable /\ ~valid THEN SlotNull ELSE read
           frame == [chk EXCEPT !.slot = read,
                                !.bound = valid,
                                !.sitekey = IF valid THEN read.sitekey ELSE <<>>,
                                !.turnstile_params = IF valid THEN read ELSE SlotNull]
       IN  chk' = IF monitoring_wanted(existing_params)
                  THEN [frame EXCEPT !.pc = "extract", !.setup = TRUE]
                  ELSE IF ~frame.bound
                  THEN CheckReturn([frame EXCEPT !.raised = TRUE], FALSE)
                  ELSE [frame EXCEPT !.pc = "solve"]
    /\ UNCHANGED <<valVars, storeVars, detVars, obsVars, urlVars, solveVars, orcVars, winVars>>

\* the interceptor script, the two waits, the render trigger, then
\* sitekey = await extractor.get_sitekey(page, wait_time=10000), the second
\* read of the slot and `if not sitekey: return False`
CheckExtract(found, read) ==
    /\ chk.pc = "extract"
    /\ LET frame == [chk EXCEPT !.consulted = TRUE, !.bound = TRUE,
                                !.sitekey = found, !.turnstile_params = read]
       IN  chk' = IF found = <<>>
                  THEN CheckReturn(frame, FALSE)
                  ELSE [frame EXCEPT !.pc = "solve"]
    /\ UNCHANGED <<valVars, storeVars, detVars, obsVars, urlVars, solveVars, orcVars, winVars>>

\* success = await solve_cloudflare_challenge(...); `if success:` ... `else:
\* return False`
CheckSolve(success) ==
    /\ chk.pc = "solve"
    /\ chk' = IF success
              THEN [chk EXCEPT !.pc = "verify", !.solved = TRUE]
              ELSE CheckReturn(chk, FALSE)
    /\ UNCHANGED <<valVars, storeVars, detVars, obsVars, urlVars, solveVars, orcVars, winVars>>

\* is_valid_after = await is_session_valid(page) and the two returns
CheckVerify(is_valid_after) ==
    /\ chk.pc = "verify"
    /\ chk' = CheckReturn([chk EXCEPT !.validAfter = is_valid_after], is_valid_after)
    /\ UNCHANGED <<valVars, storeVars, detVars, obsVars, urlVars, solveVars, orcVars, winVars>>

(***************************************************************************)
(* get_bypassed_page                                                       *)
(***************************************************************************)
\* target_url, and the page URL solve reads once the page has been opened
TargetUrl == "https://a.b/BusinessSearch?q=1"

\* The browser contexts of one call: "saved" is made by
\* load_cloudflare_session from the session file, "fresh" by
\* browser.new_context(); "none" is Python's None. Page "p0" belongs to the
\* saved context, page "p1" to the fresh one.
ContextOf(pg) == IF pg = "p0" THEN "saved" ELSE "fresh"

\* the tuple returned, without the playwright and browser objects
Returned(context, pg) == [context |-> context, page |-> pg]
NothingReturned == Returned("none", "none")

IdleOrc ==
    [pc |-> "idle", context |-> "none", page |-> "none", closed |-> {},
     loaded |-> FALSE, cachedValid |-> "unchecked",
     entered |-> [try |-> 0, extract |-> 0, solve |-> 0],
     ret |-> NothingReturned, outcome |-> "none", entryFiles |-> EmptyStore]

\* Variant: the saved session is never taken to be valid.
session_still_valid_never(valid) == FALSE

\* `if await is_session_valid(page)` on the page of the saved context
session_still_valid(valid) == valid

\* Variant: the closed context stays in the variable.
context_after_close_kept(context) == context

\* `await context.close(); context = None`
context_after_close(context) == "none"

\* Variant: solve is called whatever get_sitekey returned.
solve_wanted_always(sitekey) == TRUE

\* `if sitekey:`
solve_wanted(sitekey) == sitekey # <<>>

\* Variant: a failed solve starts the fresh-context branch again.
after_solve_retry(solved) == IF solved THEN "done" ELSE "fresh"

\* the result of solve_cloudflare_challenge is not looked at: the function
\* returns
after_solve(solved) == "done"

\* the network events of the page while it loads and while get_sitekey waits
OrcEvents == {EvTurnstilePath, EvUnrelated}

\* the caller asks get_session_info(domain) before or after the call
OrcInfo ==
    /\ orc.pc \in {"idle", "done"}
    /\ Info(SolveDomain)

\* get_bypassed_page up to load_cloudflare_session(browser, domain)
OrcStart ==
    /\ orc.pc = "idle"
    /\ LET r == load_cloudflare_session(files, SolveDomain) IN
        /\ files' = r.files
        /\ orc' = [orc EXCEPT !.pc = IF r.ret.created THEN "cached" ELSE "fresh",
                              !.context = IF r.ret.created THEN "saved" ELSE "none",
                              !.loaded = r.ret.created,
                              !.entered.try = @ + 1,
                              !.entryFiles = files]
    /\ UNCHANGED <<valVars, last, prev, cleared, savedBy, detVars, obsVars, urlVars, solveVars, winVars, chkVars>>

\* the saved context: new_page, goto, is_session_valid, and then the return
\* or context.close()
OrcCachedCheck(valid) ==
    /\ orc.pc = "cached"
    /\ IF session_still_valid(valid)
       THEN orc' = [orc EXCEPT !.pc = "done", !.page = "p0",
                               !.cachedValid = IF valid THEN "valid" ELSE "invalid",
                               !.ret = Returned(orc.context, "p0"),
                               !.outcome = "cached"]
       ELSE LET context == context_after_close(orc.context) IN
            orc' = [orc EXCEPT !.page = "p0",
                               !.cachedValid = IF valid THEN "valid" ELSE "invalid",
                               !.closed = @ \cup {orc.context},
                               !.context = context,
                               !.pc = IF context = "none" THEN "fresh" ELSE "done",
                               !.ret = IF context = "none" THEN @ ELSE Returned(context, "p0"),
                               !.outcome = IF context = "none" THEN @ ELSE "closed"]
    /\ UNCHANGED <<valVars, storeVars, detVars, obsVars, urlVars, solveVars, winVars, chkVars>>

\* browser.new_context(), new_page(), CloudflareTurnstileExtractor() and
\* setup_network_monitoring(page)
OrcObserve ==
    /\ orc.pc = "fresh"
    /\ LET r == setup_network_monitoring(handlers["p1"], NewObject("p1"), 1) IN
        /\ handlers' = [handlers EXCEPT !["p1"] = r.handlers]
        /\ ext' = [ext EXCEPT ![1] = r.self]
    /\ orc' = [orc EXCEPT !.pc = "navigate", !.context = "fresh", !.page = "p1"]
    /\ UNCHANGED <<gs, emitted, lastRuns, seen, pending>>
    /\ UNCHANGED <<valVars, storeVars, detVars, urlVars, solveVars, winVars, chkVars>>

\* a request or response of the page while it loads or get_sitekey waits
OrcNetworkEvent(ev, body_ok) ==
    /\ orc.pc \in {"navigate", "extract"}
    /\ NetworkEvent(orc.page, ev, body_ok)

\* goto, wait_for_load_state, the interceptor script and the 10 s wait are over
OrcNavigated ==
    /\ orc.pc = "navigate"
    /\ orc' = [orc EXCEPT !.pc = "extract", !.entered.extract = @ + 1]
    /\ UNCHANGED <<valVars, storeVars, detVars, obsVars, urlVars, solveVars, winVars, chkVars>>

\* sitekey = await extractor.get_sitekey(page): the call
OrcGetSitekey ==
    /\ orc.pc = "extract"
    /\ gs.pc = "idle"
    /\ GetSitekeyStart(1)

\* get_sitekey has returned: `if sitekey:`
OrcSitekeyBack ==
    /\ orc.pc = "extract"
    /\ gs.pc = "done"
    /\ orc' = IF solve_wanted(gs.result)
              THEN [orc EXCEPT !.pc = "solve", !.entered.solve = @ + 1]
              ELSE [orc EXCEPT !.pc = "done", !.ret = Returned(orc.context, orc.page),
                               !.outcome = "notfound"]
    /\ UNCHANGED <<valVars, storeVars, detVars, obsVars, urlVars, solveVars, winVars, chkVars>>

\* await solve_cloudflare_challenge(page, context, domain, sitekey, turnstile_params)
OrcSolve(api_key, library, ua, turnstile_params, callback) ==
    /\ orc.pc = "solve"
    /\ SolveStart(api_key, library, TargetUrl, gs.result, ua, turnstile_params, callback)

\* solve_cloudflare_challenge has returned: the final return
OrcSolveBack ==
    /\ orc.pc = "solve"
    /\ sv.pc = "done"
    /\ orc' = IF after_solve(sv.result) = "done"
              THEN [orc EXCEPT !.pc = "done", !.ret = Returned(orc.context, orc.page),
                               !.outcome = IF sv.result THEN "bypassed" ELSE "giveup"]
              ELSE [orc EXCEPT !.pc = after_solve(sv.result)]
    /\ UNCHANGED <<valVars, storeVars, detVars, obsVars, urlVars, solveVars, winVars, chkVars>>

(***************************************************************************)
(* Properties                                                              *)
(***************************************************************************)
\* The validity rule of the data model: length in [22,35], prefix 0x in
\* either case, every character after the prefix alphanumeric.
SitekeyRule(s) ==
    /\ Len(s) >= 22 /\ Len(s) <= 35
    /\ s[1] = "0" /\ s[2] \in {"x", "X"}
    /\ \A i \in 3..Len(s) : isalnum(s[i])

\* C1: the validator accepts a string exactly when it satisfies the validity
\* rule (length in [22,35], prefix 0x/0X, alphanumeric suffix).
C1_ValidatorMatchesRule ==
    vOut # "none" => (vOut = "accept" <=> SitekeyRule(vIn))

HasClearanceCookie(cs) == \E i \in DOMAIN cs : cs[i].name = "cf_clearance"

PathOfLast == get_session_path(last.domain)

\* C2: load on a file that exists but does not parse as JSON returns absent
\* and the file no longer exists afterwards.
C2_CorruptFileRemoved ==
    (last.op = "load" /\ last.pre.kind \in {"bytes", "text"})
        => (~last.ok /\ files[PathOfLast].kind = "absent")

\* C3: load on a file that parses as JSON but holds no cf_clearance cookie
\* returns absent, creates no browser context and leaves the file as it was.
C3_IncompleteSessionKept ==
    (last.op = "load" /\ last.pre.kind \in {"array", "state"}
        /\ ~HasClearanceCookie(last.pre.cookies))
        => (~last.ok /\ ~last.created /\ files[PathOfLast] = last.pre)

C3_Witness ==
    /\ last.op = "load" /\ last.pre.kind = "state"
    /\ last.pre.cookies # <<>> /\ ~HasClearanceCookie(last.pre.cookies)
    /\ ~last.ok /\ files[PathOfLast] = last.pre

\* C4: a successful save(domain) of a session holding cf_clearance, directly
\* followed by load(domain), makes load return a context with the same cookies.
C4_SaveLoadRoundTrip ==
    (last.op = "load" /\ prev.op = "save" /\ prev.domain = last.domain
        /\ HasClearanceCookie(prev.cookies))
        => (last.ok /\ Range(last.cookies) = Range(prev.cookies))

C4_Witness ==
    /\ last.op = "load" /\ prev.op = "save" /\ prev.domain = last.domain
    /\ HasClearanceCookie(prev.cookies) /\ Len(prev.cookies) = 2
    /\ last.ok /\ last.cookies = prev.cookies

\* C5: distinct domains map to distinct storage keys, so a session that load
\* returns for a domain is one that was saved for that same domain.
C5_KeysCollisionFree ==
    /\ (prev.op = "save" /\ last.op \in {"save", "load", "clear", "info"}
            /\ prev.domain # last.domain)
        => get_session_path(prev.domain) # PathOfLast
    /\ (last.op = "load" /\ last.ok) => savedBy[PathOfLast] = last.domain

\* C6: clear(domain) returns ok exactly when a file existed and is now deleted,
\* returns fail and changes nothing when none existed; afterwards load(domain)
\* and info(domain) return absent until the next save(domain); sessions of
\* other domains are unchanged.
C6_ClearContract ==
    /\ last.op = "clear" =>
        /\ last.ok <=> last.pre.kind # "absent"
        /\ files[PathOfLast].kind = "absent"
        /\ last.othersKept
    /\ (last.op \in {"load", "info"} /\ cleared[last.domain]) => ~last.ok

UrlHasPattern(u) == Contains(u, challenge_url_pattern)

\* some indicator phrase occurs, ignoring case, in the text or in the markup
ShowsIndicator(text, markup) ==
    \E ind \in Range(challenge_indicators) :
        Contains(lower(text), ind) \/ Contains(lower(markup), ind)

\* C7: isValid returns false whenever a fault occurs during the check,
\* including a fault while reading the markup or the rendered text.
C7_FaultMeansInvalid ==
    (iv.pc = "done" /\ iv.fault) => ~iv.result

\* C7 (amended): a fault during the settle wait or a content read is swallowed
\* and the call is decided by the second URL check alone.
C7_FaultDecidedByUrl ==
    (iv.pc = "done" /\ iv.fault) => (iv.result <=> ~UrlHasPattern(iv.finalUrl))

C7_Witness ==
    /\ iv.pc = "done" /\ iv.fault /\ iv.result
    /\ ShowsIndicator(iv.seenText, iv.seenMarkup)

\* the part of C8 about a URL that holds the pattern at entry
EntryPatternShortCircuits ==
    (iv.pc = "done" /\ UrlHasPattern(iv.entryUrl))
        => (~iv.result /\ ~iv.waited /\ ~iv.readMarkup /\ ~iv.readText)

\* C8: isValid returns true only if the URL holds the pattern neither before
\* nor after the wait and no indicator phrase occurs in the text or markup;
\* with the pattern in the URL at entry it returns false without waiting or
\* reading content.
C8_TrueOnlyWithoutChallenge ==
    /\ (iv.pc = "done" /\ iv.result)
        => /\ ~UrlHasPattern(iv.entryUrl)
           /\ ~UrlHasPattern(iv.finalUrl)
           /\ ~ShowsIndicator(iv.seenText, iv.seenMarkup)
    /\ EntryPatternShortCircuits

\* C8 (amended): as C8, the indicator condition being required only of calls
\* whose wait and content reads all completed without a fault.
C8_TrueOnlyWithoutChallengeUnlessFault ==
    /\ (iv.pc = "done" /\ iv.result)
        => /\ ~UrlHasPattern(iv.entryUrl)
           /\ ~UrlHasPattern(iv.finalUrl)
           /\ (iv.fault \/ ~ShowsIndicator(iv.seenText, iv.seenMarkup))
    /\ EntryPatternShortCircuits

C8_Witness ==
    /\ iv.pc = "done" /\ iv.result /\ ~iv.fault
    /\ iv.waited /\ iv.readMarkup /\ iv.readText

NonChallengePage ==
    ~UrlHasPattern(page.url) /\ ~ShowsIndicator(page.text, page.markup)

\* a step of an is_session_valid call
IsValidStep == iv'.pc # iv.pc \/ iv'.n # iv.n

\* C9: successive isValid calls on a page that stays the same non-challenge
\* page all return true, and no step of isValid changes a session file.
C9_StableValidAndStoreUntouched ==
    /\ [](NonChallengePage => \A i \in DOMAIN streak : streak[i])
    /\ [][IsValidStep => files' = files]_vars

C9_Witness ==
    /\ NonChallengePage /\ Len(streak) = 2 /\ streak[1] /\ streak[2]
    /\ iv.pc = "done" /\ files # EmptyStore

RequestListeners(p) == SelectSeq(handlers[p], LAMBDA h : h.event = "request")
ResponseListeners(p) == SelectSeq(handlers[p], LAMBDA h : h.event = "response")

\* C10: whatever observe calls were made on a page, by any extractor and by
\* get_sitekey, the page has at most one request listener and one response
\* listener, so each network event is processed once.
C10_OneListenerPairPerPage ==
    /\ \A p \in PageIds : Len(RequestListeners(p)) <= 1 /\ Len(ResponseListeners(p)) <= 1
    /\ lastRuns <= 1

\* C11: a network event whose URL contains neither the challenge host nor
\* the word turnstile (in any case) leaves every extractor's captured_requests
\* and sitekey_from_network as they were, whatever its headers or body hold.
C11_OutOfScopeEventIgnored ==
    [][\A p \in PageIds, ev \in NetEvents, body_ok \in BOOLEAN :
          (OutOfScopeOf[ev.url] /\ NetworkEvent(p, ev, body_ok)) => ext' = ext]_vars

\* a listener was handed such an event while its extractor held captured requests
C11_Witness ==
    /\ seen.ignored
    /\ \E e \in ExtractorIds :
          /\ ext[e].captured_requests # <<>>
          /\ ListensTo(ext[e].page, e, "request")

\* the path segments of the URL that the validator accepts
ValidSegments(in) == {seg \in in.segments : is_valid_turnstile_sitekey(seg)}

\* the value of the sitekey= query parameter, <<>> if the URL has none
QueryValue(in) ==
    IF in.query = <<>> THEN <<>>
    ELSE LET eq == CHOOSE i \in DOMAIN in.query :
                      in.query[i] = "=" /\ \A j \in DOMAIN in.query : in.query[j] = "=" => j <= i
         IN  SubSeq(in.query, eq + 1, Len(in.query))

\* C12: for every Turnstile-tagged URL that holds a valid sitekey as a path
\* segment and a different value in its sitekey= query parameter, the URL
\* extraction returns a valid path-segment sitekey, not the parameter.
C12_PathSegmentPreferred ==
    (/\ xOut.called
     /\ Contains(lower(xIn.url), turnstile)
     /\ ValidSegments(xIn) # {}
     /\ QueryValue(xIn) # <<>>
     /\ QueryValue(xIn) \notin ValidSegments(xIn))
        => xOut.value \in ValidSegments(xIn)

\* C13: the first validated candidate wins: once sitekey_from_network holds a
\* value no later event and no later get_sitekey call changes it, and every
\* get_sitekey call returns that value.
C13_FirstCandidateKept ==
    [][/\ \A e \in ExtractorIds :
            ext[e].sitekey_from_network # <<>>
                => ext'[e].sitekey_from_network = ext[e].sitekey_from_network
       /\ (gs' # gs /\ gs'.pc = "done" /\ ext[gs'.e].sitekey_from_network # <<>>)
            => gs'.result = ext[gs'.e].sitekey_from_network]_vars

\* the sitekeys the captured events of one kind of URL yield
YieldsOf(captured, tagged) ==
    {SitekeyOf[captured[i]] :
        i \in {j \in DOMAIN captured :
                  /\ IsTurnstileOf[captured[j].url] = tagged
                  /\ SitekeyOf[captured[j]] # <<>>}}

\* C14: when the events an extractor observed include a Turnstile-tagged event
\* yielding a valid sitekey and an untagged event yielding a different valid
\* sitekey, get_sitekey returns the sitekey of a Turnstile-tagged event, in
\* whatever order the two arrived.
C14_TurnstileEventPreferred ==
    [][(gs' # gs /\ gs'.pc = "done") =>
          LET captured == ext[gs'.e].captured_requests IN
          (/\ YieldsOf(captured, TRUE) # {}
           /\ YieldsOf(captured, FALSE) \ YieldsOf(captured, TRUE) # {})
              => gs'.result \in YieldsOf(captured, TRUE)]_vars

\* C15: get_sitekey returns None or a string the validator accepts; the cached
\* sitekey is at every moment None or a string the validator accepts; and a
\* call made while no observed event yielded a validated candidate returns
\* None after its wait.
C15_OnlyValidatedSitekeys ==
    /\ \A e \in ExtractorIds :
          \/ ext[e].sitekey_from_network = <<>>
          \/ is_valid_turnstile_sitekey(ext[e].sitekey_from_network)
    /\ gs.pc = "done" => (gs.result = <<>> \/ is_valid_turnstile_sitekey(gs.result))
    /\ (gs.pc = "done" /\ ~seen.yielded[gs.e]) => gs.result = <<>>

\* a call returned None although its extractor had captured a request carrying
\* a candidate that is not a sitekey
C15_Witness ==
    /\ gs.pc = "done" /\ gs.result = <<>>
    /\ \E i \in DOMAIN ext[gs.e].captured_requests :
          ext[gs.e].captured_requests[i] = InfoOf(EvBadParam, TRUE)

\* the task was acknowledged with a result that is not success
NonSuccessAck ==
    /\ service.acked /\ service.ack.http_ok
    /\ ~(service.ack.has_errorId /\ service.ack.errorId = 0)

\* C16: when the submission of the task is acknowledged with an errorId other
\* than 0, solve fails at once: no poll is sent, no token injected, no session
\* saved, and the call returns False.
C16_FailedSubmitFailsAtOnce ==
    NonSuccessAck =>
        /\ sv.pc = "done" /\ sv.result = FALSE
        /\ service.polls = 0
        /\ ~sv.injected
        /\ sv.saves = 0 /\ files = sv.entryFiles

C16_Witness ==
    /\ NonSuccessAck /\ service.ack.has_errorId
    /\ sv.pc = "done" /\ files # EmptyStore

\* C17: a poll answered 'processing' is followed by another poll while
\* attempts remain; a poll answered with a status other than 'processing' and
\* 'ready' ends the call with failure and no further poll is sent.
C17_PollLoopBranches ==
    /\ []((service.last = "processing" /\ service.polls < 30) => sv.pc \in {"sleep", "poll"})
    /\ (service.last = "processing" /\ service.polls < 30 /\ sv.pc = "sleep") ~> (sv.pc = "poll")
    /\ (sv.pc = "poll") ~> (sv.pc # "poll")
    /\ [][(sv.pc = "poll" /\ sv'.pc # "poll") => service'.polls = service.polls + 1]_vars
    /\ [](service.last \notin {"none", "processing", "ready"}
            => (sv.pc = "done" /\ sv.result = FALSE))
    /\ [][service.last \notin {"none", "processing", "ready"}
            => service'.polls = service.polls]_vars

\* a second poll was sent after 'processing', and its answer, an unknown
\* status, ended the call
C17_Witness ==
    /\ service.polls = 2 /\ ~service.ready
    /\ service.last = "failed" /\ sv.pc = "done"

\* C18: 'ready' is terminal: once a poll is answered 'ready' no further poll
\* is sent in the same call, with or without a token in the solution, whether
\* or not the injection clears the challenge.
C18_ReadyIsTerminal == ~service.afterReady

\* C19: one solve call sends at most 30 polls, each preceded by one wait of 5
\* units, and then returns; when no poll is answered 'ready' it returns False,
\* after the 30th poll at the latest.
C19_SolveLoopTerminates ==
    /\ [](service.polls <= 30)
    /\ [](sv.waited = 5 * (service.polls + IF sv.pc = "poll" THEN 1 ELSE 0))
    /\ []((sv.pc = "done" /\ ~service.ready) => sv.result = FALSE)
    /\ (sv.pc = "submit") ~> (sv.pc = "done")

\* the call failed on the 30th poll of a service that never answered 'ready'
C19_Witness ==
    /\ sv.pc = "done" /\ sv.result = FALSE
    /\ service.polls = 30 /\ ~service.ready /\ sv.waited = 150

OptionalKeys == {"action", "data", "pagedata"}

\* the captured challenge parameter a key of the payload is taken from
ParamOf(key) ==
    CASE key = "action" -> sv.params.action
      [] key = "data" -> sv.params.cData
      [] key = "pagedata" -> sv.params.chlPageData

PresentNonEmpty(key) ==
    sv.params.given /\ ParamOf(key).set /\ ParamOf(key).val # ""

RequiredFields ==
    /\ {"type", "websiteURL", "websiteKey"} \subseteq DOMAIN service.task
    /\ service.task["type"] = "TurnstileTaskProxyless"
    /\ service.task["websiteURL"] = sv.url
    /\ service.task["websiteKey"] = sv.sitekey

\* C20 as stated: the submitted payload holds the type, the full page URL as
\* websiteURL and the sitekey as websiteKey, and holds each of action, data
\* and pagedata exactly when the captured parameter is present and non-empty.
C20_PayloadFields ==
    service.sent =>
        /\ RequiredFields
        /\ \A key \in OptionalKeys : key \in DOMAIN service.task <=> PresentNonEmpty(key)

\* C20 amended: ... exactly when the captured parameter is present, non-empty
\* and not the string 'null'; the value sent is the captured one.
C20_PayloadFieldsExceptNull ==
    service.sent =>
        /\ RequiredFields
        /\ \A key \in OptionalKeys :
              /\ key \in DOMAIN service.task
                    <=> (PresentNonEmpty(key) /\ ParamOf(key).val # "null")
              /\ key \in DOMAIN service.task => service.task[key] = ParamOf(key).val

\* a payload was sent for parameters of which one is 'null', one is set and
\* one is missing
C20_Witness ==
    /\ service.sent /\ service.acked
    /\ sv.params.given
    /\ sv.params.action = Str("null")
    /\ sv.params.cData = Str("v")
    /\ sv.params.chlPageData = PyNone
    /\ DOMAIN service.task \cap OptionalKeys = {"data"}

\* solve was called without an API credential configured
NoCredentialCall == sv.pc # "idle" /\ ~sv.credential

OpenReturn ==
    /\ orc.ret.context \in {"saved", "fresh"}
    /\ orc.ret.context \notin orc.closed
    /\ orc.ret.page \in {"p0", "p1"}
    /\ ContextOf(orc.ret.page) = orc.ret.context

\* C21: without an API credential solve returns False without a request to
\* the solving service, without evaluating anything in the page and without
\* touching the session store, and get_bypassed_page still returns its page.
C21_NoCredentialNoSolve ==
    NoCredentialCall =>
        /\ sv.pc = "done" /\ sv.result = FALSE
        /\ ~service.sent /\ service.polls = 0
        /\ ~sv.evaluated /\ ~sv.injected
        /\ sv.saves = 0 /\ files = sv.entryFiles
        /\ orc.pc \in {"solve", "done"}
        /\ orc.pc = "done" => (OpenReturn /\ orc.ret.page = "p1")

C21_Witness ==
    /\ NoCredentialCall /\ orc.pc = "done"
    /\ orc.ret = Returned("fresh", "p1")

InjectionSteps == {"injected", "checked_valid", "checked_invalid"}

\* C22: when a poll is answered 'ready' with a token and the page holds a
\* callback, the callback is called with the token as its only argument, and
\* the clearance check is made only after that call.
C22_CallbackGetsToken ==
    /\ (sv.round.token # "" /\ sv.callback = "function"
            /\ sv.round.step \notin {"none", "faulted"})
          => (sv.round.step \in InjectionSteps /\ sv.round.args = <<sv.round.token>>)
    /\ sv.round.step \in {"checked_valid", "checked_invalid"} => sv.round.args # <<>>

C22_Witness ==
    /\ sv.callback = "function" /\ sv.round.step = "checked_invalid"
    /\ sv.round.args = <<"0.tok">>

\* C23: when a token was obtained and the page holds no callback, the fallback
\* delivery (render and execute on a challenge container) is attempted, and the
\* settle wait and the clearance check are made before the outcome is reported.
C23_FallbackWhenNoCallback ==
    (sv.round.token # "" /\ sv.callback = "none" /\ sv.round.step \notin {"none", "faulted"})
        => /\ sv.round.fallback
           /\ sv.pc = "done" => sv.round.step \in {"checked_valid", "checked_invalid"}

\* C24: a session file is written only by save_cloudflare_session called after
\* the token was delivered to the page and a following is_session_valid
\* returned true in the same solve call; nothing else in solve or in
\* get_bypassed_page writes one.
C24_SaveOnlyAfterConfirmedBypass ==
    /\ [](sv.saves > 0 => (sv.injected /\ sv.round.step = "checked_valid"
                             /\ sv.round.args # <<>>))
    /\ [][\A p \in Paths :
             (files'[p] # files[p] /\ files'[p].kind # "absent")
                => (/\ sv.pc = "verify" /\ sv.round.args # <<>>
                    /\ sv'.round.step = "checked_valid" /\ sv'.saves = sv.saves + 1)]_vars

C24_Witness ==
    /\ orc.pc = "done" /\ orc.outcome = "bypassed"
    /\ sv.saves = 1 /\ files # sv.entryFiles

\* C25: when the clearance check after the injection reports the challenge
\* still present, solve returns False, without raising and without creating
\* or changing a session file.
C25_NotClearedMeansFailure ==
    (sv.pc = "done" /\ sv.notCleared) => (sv.result = FALSE /\ files = sv.entryFiles)

\* C26: when load_cloudflare_session returns a context and is_session_valid
\* reports valid after the navigation, get_bypassed_page is done at once: no
\* listeners are registered, neither get_sitekey nor solve is called, nothing
\* is sent to the solving service, and the context of the saved session is
\* returned.
C26_CachedSessionPath ==
    (orc.loaded /\ orc.cachedValid = "valid") =>
        /\ orc.pc = "done"
        /\ orc.ret = Returned("saved", "p0") /\ "saved" \notin orc.closed
        /\ \A p \in PageIds : handlers[p] = <<>>
        /\ \A e \in ExtractorIds : ~ext[e].alive
        /\ gs.pc = "idle" /\ sv.pc = "idle"
        /\ ~service.sent /\ service.polls = 0
        /\ orc.entered = [try |-> 1, extract |-> 0, solve |-> 0]

C26_Witness ==
    /\ orc.loaded /\ orc.cachedValid = "valid" /\ orc.pc = "done"

\* get_sitekey was called by get_bypassed_page and returned None
SitekeyNotFound == orc.entered.extract = 1 /\ gs.pc = "done" /\ gs.result = <<>>

\* C27: when get_sitekey returns None the call gives up: solve is not called,
\* no request goes to the solving service, no token is injected, no session
\* is saved.
C27_NotFoundGivesUp ==
    SitekeyNotFound =>
        /\ orc.pc \in {"extract", "done"}
        /\ orc.entered.solve = 0 /\ sv.pc = "idle"
        /\ ~service.sent /\ service.polls = 0
        /\ ~sv.injected /\ sv.saves = 0

C27_Witness ==
    /\ SitekeyNotFound /\ orc.pc = "done"
    /\ ext[1].captured_requests = <<>> /\ emitted > 0

\* C28: within one get_bypassed_page call the cached-session step, the
\* sitekey extraction and solve are each entered at most once, and at most
\* one task is submitted to the solving service.
C28_NoReentry ==
    /\ orc.entered.try <= 1 /\ orc.entered.extract <= 1 /\ orc.entered.solve <= 1
    /\ service.sent => orc.entered.solve = 1
    /\ orc.pc = "done" => (sv.pc \in {"idle", "done"} /\ gs.pc \in {"idle", "done"})

C28_Witness ==
    /\ orc.pc = "done" /\ orc.outcome = "giveup"
    /\ orc.cachedValid = "invalid"
    /\ orc.entered = [try |-> 1, extract |-> 1, solve |-> 1]
    /\ service.polls = 30

\* C29: whatever the outcome, get_bypassed_page returns a context and a page
\* that are open, never the context it closed after an invalid saved session.
C29_ReturnsOpenContext ==
    orc.pc = "done" => OpenReturn

C29_Witness ==
    /\ orc.pc = "done" /\ "saved" \in orc.closed
    /\ orc.ret = Returned("fresh", "p1")

\* C30: every failure of the bypass reaches the caller as a returned outcome
\* that differs from the success outcome: solve returns False and never
\* raises, and the value get_bypassed_page returns after giving up differs
\* from the value it returns after a confirmed bypass.
C30_FailureIsTold ==
    /\ (sv.pc = "done" /\ sv.round.step # "checked_valid") => sv.result = FALSE
    /\ (orc.pc = "done" /\ orc.outcome \in {"notfound", "giveup"})
          => orc.ret # Returned("fresh", "p1")

\* what get_session_info answers for the domain of the call
InfoNow == get_session_info(files, SolveDomain).ret

\* C31: end to end: no saved session at the start, a Turnstile URL with a
\* valid sitekey observed, a 'ready' answer with a token within the poll
\* budget, a callback on the page, and is_session_valid true after the
\* callback was called: at the end of get_bypassed_page get_session_info of
\* the domain is not None and reports has_cf_clearance.
C31_EndToEndClearance ==
    (/\ orc.pc = "done"
     /\ orc.entryFiles[get_session_path(SolveDomain)].kind = "absent"
     /\ seen.yielded[1] /\ gs.result = KnownSitekey
     /\ service.ready /\ service.polls <= 30 /\ sv.round.token # ""
     /\ sv.callback = "function" /\ sv.round.args # <<>>
     /\ sv.round.step = "checked_valid")
        => (InfoNow.exists /\ InfoNow.has_cf_clearance)

\* C37: within one solve call the page's callback is called at most once and
\* navigator.userAgent is redefined at most once, whatever the solving
\* service answers to the polls.
C37_InjectOnce == ~sv.reinvoked /\ ~sv.reoverridden

\* C38: whenever solve returns True a session file of the domain exists and
\* was written during that call; a call whose save_cloudflare_session failed
\* does not return True.
C38_SuccessMeansSaved ==
    (sv.pc = "done" /\ sv.result) =>
        /\ sv.saved
        /\ files[get_session_path(SolveDomain)].kind = "state"

\* no handler of extractor e is waiting for a response body
Settled(e) == \A i \in DOMAIN pending : pending[i].self # e

\* C32: every network event in scope, request or response, is appended to
\* captured_requests in arrival order, and no entry of it is ever removed,
\* replaced or reordered, so that the final pass of get_sitekey sees every
\* event in scope that arrived before it.
C32_BufferHoldsEveryEvent ==
    /\ [](\A e \in ExtractorIds :
            Settled(e) => ext[e].captured_requests = seen.arrived[e])
    /\ [][\A e \in ExtractorIds :
            ext[e].alive =>
                /\ Len(ext'[e].captured_requests) >= Len(ext[e].captured_requests)
                /\ SubSeq(ext'[e].captured_requests, 1, Len(ext[e].captured_requests))
                      = ext[e].captured_requests]_vars

\* C33: a handler runs from the event to its writes without a suspension
\* point, so no handler is ever waiting, and no handler writes
\* sitekey_from_network after the handler of a later event has written it.
C33_HandlersRunToCompletion ==
    /\ pending = <<>>
    /\ \A e \in ExtractorIds : ~seen.stale[e]

\* C34: the render interceptor is in place before the first render call of
\* the widget on the page load, in every interleaving of navigation, page
\* scripts and the injection, so that a render call always leaves its
\* options, callback included, in window.turnstileParams.
C34_InterceptorBeforeFirstRender ==
    win.renders > 0 =>
        /\ ~win.missed
        /\ win.slot = captured_params(win.options)

\* C36: after any sequence of save, load, info and clear the store holds at
\* most one session per domain, and a session it holds for a domain is the one
\* written by the most recent successful save for that domain.
C36_SessionIsOwnLastSave ==
    \A d \in Domains :
        files[get_session_path(d)].kind = "state" => savedBy[get_session_path(d)] = d

\* the slot read by check_and_solve_cloudflare provides a valid sitekey
ProvidesValidSitekey(params) ==
    /\ params.set = "params"
    /\ params.sitekey # <<>>
    /\ SitekeyRule(params.sitekey)

\* C39: when check_and_solve_cloudflare has detected a challenge and the
\* captured parameters provide no valid sitekey (slot empty, sitekey missing
\* or null, or sitekey not valid), network monitoring is set up and
\* get_sitekey is consulted before the function reports failure; and the
\* function returns true only if no challenge was detected, or solve succeeded
\* and the later is_session_valid returned true.
C39_ExtractorConsultedBeforeFailure ==
    chk.pc = "done" =>
        /\ (chk.detected /\ ~ProvidesValidSitekey(chk.slot) /\ ~chk.ret)
                => (chk.setup /\ chk.consulted)
        /\ chk.ret => (~chk.detected \/ (chk.solved /\ chk.validAfter))

\* C40: get_session_info never changes the store, whatever the file is
\* (absent, not JSON, a session without cf_clearance, a session with it), and
\* reports no session for a file that is absent or does not parse; and
\* get_bypassed_page never deletes the file of a cached session that turned
\* out invalid: as long as no save has succeeded since, the store is what it
\* was when get_bypassed_page was entered.
C40_InfoAndInvalidCacheKeepStore ==
    /\ [][(last'.op = "info" /\ last' # last) =>
            /\ files' = files
            /\ last'.pre = files[get_session_path(last'.domain)]
            /\ last'.pre.kind \in {"absent", "bytes", "text"} => ~last'.ok]_vars
    /\ [](orc.cachedValid = "invalid" /\ ~sv.saved =>
            /\ files = orc.entryFiles
            /\ files[get_session_path(SolveDomain)].kind = "state")

\* info is asked after the cached session was found invalid and the re-solve
\* that followed has failed
C40_Witness ==
    /\ orc.pc = "done" /\ orc.cachedValid = "invalid"
    /\ sv.pc = "done" /\ ~sv.result
    /\ last.op = "info" /\ last.ok /\ last.info.has_cf_clearance
    /\ files = orc.entryFiles

\* what each source of a dict yields when it is searched on its own
UrlYield(data) == IfValid(extract_sitekey_from_url(data.url))
PostYield(data) == extract_from_text(data.post_data)
BodyYield(data) == extract_from_text(data.body)
HeadersYield(data) ==
    FirstOf([i \in DOMAIN data.headers |-> extract_from_header(data.headers[i])])
Tagged(data) == Contains(lower(data.url), turnstile)

InitValidator ==
    /\ vIn \in ValidatorInputs
    /\ vOut = "none"
    /\ files = EmptyStore
    /\ last = NoOp
    /\ prev = Summary(NoOp)
    /\ cleared = [d \in Domains |-> FALSE]
    /\ savedBy = [p \in Paths |-> <<>>]
    /\ page = [url |-> SiteUrl, markup |-> <<>>, text |-> <<>>]
    /\ iv = IdleCall
    /\ streak = <<>>
    /\ handlers = [p \in PageIds |-> <<>>]
    /\ ext = [e \in ExtractorIds |-> Unbuilt]
    /\ gs = IdleGet
    /\ emitted = 0
    /\ lastRuns = 0
    /\ seen = NothingSeen
    /\ pending = <<>>
    /\ xIn = <<>>
    /\ xOut = NotCalled
    /\ sv = IdleSolve
    /\ service = FreshService
    /\ orc = IdleOrc
    /\ win = IdleWin
    /\ chk = IdleCheck

NextValidator == Validate

SpecValidator == InitValidator /\ [][NextValidator]_vars

\* The session store under any sequence of its operations.
InitStore ==
    /\ vIn = <<>>
    /\ vOut = "none"
    /\ files = EmptyStore
    /\ last = NoOp
    /\ prev = Summary(NoOp)
    /\ cleared = [d \in Domains |-> FALSE]
    /\ savedBy = [p \in Paths |-> <<>>]
    /\ page = [url |-> SiteUrl, markup |-> <<>>, text |-> <<>>]
    /\ iv = IdleCall
    /\ streak = <<>>
    /\ handlers = [p \in PageIds |-> <<>>]
    /\ ext = [e \in ExtractorIds |-> Unbuilt]
    /\ gs = IdleGet
    /\ emitted = 0
    /\ lastRuns = 0
    /\ seen = NothingSeen
    /\ pending = <<>>
    /\ xIn = <<>>
    /\ xOut = NotCalled
    /\ sv = IdleSolve
    /\ service = FreshService
    /\ orc = IdleOrc
    /\ win = IdleWin
    /\ chk = IdleCheck

NextStore ==
    \/ \E d \in Domains, cookies \in CookieJars, io_ok \in BOOLEAN : Save(d, cookies, io_ok)
    \/ \E d \in Domains : Load(d)
    \/ \E d \in Domains : Clear(d)
    \/ \E d \in Domains : Info(d)
    \/ \E p \in Paths, c \in DamagedFiles : DamageFile(p, c)

SpecStore == InitStore /\ [][NextStore]_vars

\* The detector called again and again on a page that may change under it;
\* the store holds no file or one saved session.
InitDetector ==
    /\ vIn = <<>>
    /\ vOut = "none"
    /\ files \in {EmptyStore,
                  [EmptyStore EXCEPT ![get_session_path(<<"a", ".", "b">>)] = StateFile(<<sid, cf1>>)]}
    /\ last = NoOp
    /\ prev = Summary(NoOp)
    /\ cleared = [d \in Domains |-> FALSE]
    /\ savedBy = [p \in Paths |-> <<>>]
    /\ page \in Pages
    /\ iv = IdleCall
    /\ streak = <<>>
    /\ handlers = [p \in PageIds |-> <<>>]
    /\ ext = [e \in ExtractorIds |-> Unbuilt]
    /\ gs = IdleGet
    /\ emitted = 0
    /\ lastRuns = 0
    /\ seen = NothingSeen
    /\ pending = <<>>
    /\ xIn = <<>>
    /\ xOut = NotCalled
    /\ sv = IdleSolve
    /\ service = FreshService
    /\ orc = IdleOrc
    /\ win = IdleWin
    /\ chk = IdleCheck

NextDetector ==
    \/ IsValidEntry
    \/ \E fault \in BOOLEAN : IsValidWait(fault)
    \/ \E fault \in BOOLEAN : IsValidContent(fault)
    \/ \E fault \in BOOLEAN : IsValidText(fault)
    \/ IsValidFinal
    \/ \E p \in Pages : PageChange(p)

SpecDetector == InitDetector /\ [][NextDetector]_vars

\* Extractors are constructed for a page, set up and asked for the sitekey
\* while the browser emits network events.
InitObserver ==
    /\ vIn = <<>>
    /\ vOut = "none"
    /\ files = EmptyStore
    /\ last = NoOp
    /\ prev = Summary(NoOp)
    /\ cleared = [d \in Domains |-> FALSE]
    /\ savedBy = [p \in Paths |-> <<>>]
    /\ page = [url |-> SiteUrl, markup |-> <<>>, text |-> <<>>]
    /\ iv = IdleCall
    /\ streak = <<>>
    /\ handlers = [p \in PageIds |-> <<>>]
    /\ ext = [e \in ExtractorIds |-> Unbuilt]
    /\ gs = IdleGet
    /\ emitted = 0
    /\ lastRuns = 0
    /\ seen = NothingSeen
    /\ pending = <<>>
    /\ xIn = <<>>
    /\ xOut = NotCalled
    /\ sv = IdleSolve
    /\ service = FreshService
    /\ orc = IdleOrc
    /\ win = IdleWin
    /\ chk = IdleCheck

\* no handler is waiting for a response body
Prompt == pending = <<>>

\* Several extractors on one page; response bodies are answered before the
\* next event or call.
NextObserver ==
    \/ Prompt /\ \E e \in ExtractorIds, p \in PageIds : NewExtractor(e, p)
    \/ Prompt /\ \E e \in ExtractorIds : SetupNetworkMonitoring(e)
    \/ Prompt /\ \E e \in ExtractorIds : GetSitekeyStart(e)
    \/ Prompt /\ GetSitekeyResume
    \/ Prompt /\ \E p \in PageIds, ev \in NetEvents, body_ok \in BOOLEAN :
                    NetworkEvent(p, ev, body_ok)
    \/ \E i \in 1..MaxExtractors : ResponseText(i)

SpecObserver == InitObserver /\ [][NextObserver]_vars

\* One extractor; response bodies are answered at any later moment, in any
\* order.
NextHandlers ==
    \/ NewExtractor(1, "p1")
    \/ SetupNetworkMonitoring(1)
    \/ GetSitekeyStart(1)
    \/ GetSitekeyResume
    \/ \E ev \in NetEvents, body_ok \in BOOLEAN : NetworkEvent("p1", ev, body_ok)
    \/ \E i \in 1..MaxEvents : ResponseText(i)

SpecHandlers == InitObserver /\ [][NextHandlers]_vars

\* The URL extraction applied to one URL.
InitUrl ==
    /\ vIn = <<>>
    /\ vOut = "none"
    /\ files = EmptyStore
    /\ last = NoOp
    /\ prev = Summary(NoOp)
    /\ cleared = [d \in Domains |-> FALSE]
    /\ savedBy = [p \in Paths |-> <<>>]
    /\ page = [url |-> SiteUrl, markup |-> <<>>, text |-> <<>>]
    /\ iv = IdleCall
    /\ streak = <<>>
    /\ handlers = [p \in PageIds |-> <<>>]
    /\ ext = [e \in ExtractorIds |-> Unbuilt]
    /\ gs = IdleGet
    /\ emitted = 0
    /\ lastRuns = 0
    /\ seen = NothingSeen
    /\ pending = <<>>
    /\ xIn \in UrlInputs
    /\ xOut = NotCalled
    /\ sv = IdleSolve
    /\ service = FreshService
    /\ orc = IdleOrc
    /\ win = IdleWin
    /\ chk = IdleCheck

NextUrl == ExtractFromUrl

SpecUrl == InitUrl /\ [][NextUrl]_vars

\* One solve call, with every combination of the optional challenge
\* parameters, up to the acknowledgment of the task.
InitPayload ==
    /\ vIn = <<>>
    /\ vOut = "none"
    /\ files = EmptyStore
    /\ last = NoOp
    /\ prev = Summary(NoOp)
    /\ cleared = [d \in Domains |-> FALSE]
    /\ savedBy = [p \in Paths |-> <<>>]
    /\ page = [url |-> SiteUrl, markup |-> <<>>, text |-> <<>>]
    /\ iv = IdleCall
    /\ streak = <<>>
    /\ handlers = [p \in PageIds |-> <<>>]
    /\ ext = [e \in ExtractorIds |-> Unbuilt]
    /\ gs = IdleGet
    /\ emitted = 0
    /\ lastRuns = 0
    /\ seen = NothingSeen
    /\ pending = <<>>
    /\ xIn = <<>>
    /\ xOut = NotCalled
    /\ sv = IdleSolve
    /\ service = FreshService
    /\ orc = IdleOrc
    /\ win = IdleWin
    /\ chk = IdleCheck

NextPayload ==
    \/ \E api_key \in ApiKeys, url \in PageUrls, ua \in UserAgents, params \in AllParams :
          SolveStart(api_key, TRUE, url, SolveSitekey, ua, params, "function")
    \/ \E create_result \in Acks : Submit(create_result)

SpecPayload == InitPayload /\ [][NextPayload]_vars

\* One solve call against a solving service that answers as it likes; the
\* store holds no file or one saved session.
InitSolve ==
    /\ vIn = <<>>
    /\ vOut = "none"
    /\ files \in {EmptyStore,
                  [EmptyStore EXCEPT ![get_session_path(SolveDomain)] = StateFile(<<sid>>)]}
    /\ last = NoOp
    /\ prev = Summary(NoOp)
    /\ cleared = [d \in Domains |-> FALSE]
    /\ savedBy = [p \in Paths |-> <<>>]
    /\ page = [url |-> SiteUrl, markup |-> <<>>, text |-> <<>>]
    /\ iv = IdleCall
    /\ streak = <<>>
    /\ handlers = [p \in PageIds |-> <<>>]
    /\ ext = [e \in ExtractorIds |-> Unbuilt]
    /\ gs = IdleGet
    /\ emitted = 0
    /\ lastRuns = 0
    /\ seen = NothingSeen
    /\ pending = <<>>
    /\ xIn = <<>>
    /\ xOut = NotCalled
    /\ sv = IdleSolve
    /\ service = FreshService
    /\ orc = IdleOrc
    /\ win = IdleWin
    /\ chk = IdleCheck

NextSolve ==
    \/ \E api_key \in ApiKeys, library \in BOOLEAN, url \in PageUrls, ua \in UserAgents,
          params \in FewParams, callback \in Callbacks :
          SolveStart(api_key, library, url, SolveSitekey, ua, params, callback)
    \/ \E create_result \in Acks : Submit(create_result)
    \/ Sleep
    \/ \E answer \in PollAnswers : Poll(answer)
    \/ \E fault \in BOOLEAN, user_agent \in SolutionAgents : Inject(fault, user_agent)
    \/ \E valid \in BOOLEAN, cookies \in ContextJars, io_ok \in BOOLEAN :
          Verify(valid, cookies, io_ok)

SpecSolve == InitSolve /\ [][NextSolve]_vars

\* The awaited calls of the loop return or raise: asyncio.sleep ends, the
\* HTTP requests carry timeout=30, the page calls answer or fail.
SpecSolveLive == SpecSolve /\ WF_vars(NextSolve)

\* _extract_sitekey_from_network_data applied to one dict of DataInputs.
InitNetData ==
    /\ vIn = <<>>
    /\ vOut = "none"
    /\ files = EmptyStore
    /\ last = NoOp
    /\ prev = Summary(NoOp)
    /\ cleared = [d \in Domains |-> FALSE]
    /\ savedBy = [p \in Paths |-> <<>>]
    /\ page = [url |-> SiteUrl, markup |-> <<>>, text |-> <<>>]
    /\ iv = IdleCall
    /\ streak = <<>>
    /\ handlers = [p \in PageIds |-> <<>>]
    /\ ext = [e \in ExtractorIds |-> Unbuilt]
    /\ gs = IdleGet
    /\ emitted = 0
    /\ lastRuns = 0
    /\ seen = NothingSeen
    /\ pending = <<>>
    /\ xIn \in DataInputs
    /\ xOut = NotCalled
    /\ sv = IdleSolve
    /\ service = FreshService
    /\ orc = IdleOrc
    /\ win = IdleWin
    /\ chk = IdleCheck

NextNetData == ExtractFromNetworkData

SpecNetData == InitNetData /\ [][NextNetData]_vars

\* One call of check_and_solve_cloudflare.
InitCheck ==
    /\ vIn = <<>>
    /\ vOut = "none"
    /\ files = EmptyStore
    /\ last = NoOp
    /\ prev = Summary(NoOp)
    /\ cleared = [d \in Domains |-> FALSE]
    /\ savedBy = [p \in Paths |-> <<>>]
    /\ page = [url |-> SiteUrl, markup |-> <<>>, text |-> <<>>]
    /\ iv = IdleCall
    /\ streak = <<>>
    /\ handlers = [p \in PageIds |-> <<>>]
    /\ ext = [e \in ExtractorIds |-> Unbuilt]
    /\ gs = IdleGet
    /\ emitted = 0
    /\ lastRuns = 0
    /\ seen = NothingSeen
    /\ pending = <<>>
    /\ xIn = <<>>
    /\ xOut = NotCalled
    /\ sv = IdleSolve
    /\ service = FreshService
    /\ orc = IdleOrc
    /\ win = IdleWin
    /\ chk = IdleCheck

NextCheck ==
    \/ \E is_valid \in BOOLEAN : CheckStart(is_valid)
    \/ \E read \in ExistingParams : CheckSlot(read)
    \/ \E found \in {<<>>, KnownSitekey, OtherSitekey}, read \in ExistingParams :
            CheckExtract(found, read)
    \/ \E success \in BOOLEAN : CheckSolve(success)
    \/ \E is_valid_after \in BOOLEAN : CheckVerify(is_valid_after)

SpecCheck == InitCheck /\ [][NextCheck]_vars

\* One page load under get_bypassed_page with a fresh context.
InitInterceptor ==
    /\ vIn = <<>>
    /\ vOut = "none"
    /\ files = EmptyStore
    /\ last = NoOp
    /\ prev = Summary(NoOp)
    /\ cleared = [d \in Domains |-> FALSE]
    /\ savedBy = [p \in Paths |-> <<>>]
    /\ page = [url |-> SiteUrl, markup |-> <<>>, text |-> <<>>]
    /\ iv = IdleCall
    /\ streak = <<>>
    /\ handlers = [p \in PageIds |-> <<>>]
    /\ ext = [e \in ExtractorIds |-> Unbuilt]
    /\ gs = IdleGet
    /\ emitted = 0
    /\ lastRuns = 0
    /\ seen = NothingSeen
    /\ pending = <<>>
    /\ xIn = <<>>
    /\ xOut = NotCalled
    /\ sv = IdleSolve
    /\ service = FreshService
    /\ orc = IdleOrc
    /\ win = IdleWin
    /\ chk = IdleCheck

NextInterceptor ==
    \/ WinGoto
    \/ WinLoaded
    \/ WinScript
    \/ \E options \in RenderOptions : WinRender(options)
    \/ WinInject
    \/ WinTick
    \/ WinRead

SpecInterceptor == InitInterceptor /\ [][NextInterceptor]_vars

\* One get_bypassed_page call: the store holds no file, a saved session, a
\* session without the clearance cookie or a file that is not JSON.
InitOrchestrator ==
    /\ vIn = <<>>
    /\ vOut = "none"
    /\ files \in {EmptyStore,
                  [EmptyStore EXCEPT ![get_session_path(SolveDomain)] = StateFile(<<sid, cf1>>)],
                  [EmptyStore EXCEPT ![get_session_path(SolveDomain)] = StateFile(<<sid>>)],
                  [EmptyStore EXCEPT ![get_session_path(SolveDomain)] = TextFile]}
    /\ last = NoOp
    /\ prev = Summary(NoOp)
    /\ cleared = [d \in Domains |-> FALSE]
    /\ savedBy = [p \in Paths |-> <<>>]
    /\ page = [url |-> SiteUrl, markup |-> <<>>, text |-> <<>>]
    /\ iv = IdleCall
    /\ streak = <<>>
    /\ handlers = [p \in PageIds |-> <<>>]
    /\ ext = [e \in ExtractorIds |-> Unbuilt]
    /\ gs = IdleGet
    /\ emitted = 0
    /\ lastRuns = 0
    /\ seen = NothingSeen
    /\ pending = <<>>
    /\ xIn = <<>>
    /\ xOut = NotCalled
    /\ sv = IdleSolve
    /\ service = FreshService
    /\ orc = IdleOrc
    /\ win = IdleWin
    /\ chk = IdleCheck

NextOrchestrator ==
    \/ OrcStart
    \/ \E valid \in BOOLEAN : OrcCachedCheck(valid)
    \/ OrcObserve
    \/ \E ev \in OrcEvents, body_ok \in BOOLEAN : OrcNetworkEvent(ev, body_ok)
    \/ OrcNavigated
    \/ OrcGetSitekey
    \/ GetSitekeyResume
    \/ OrcSitekeyBack
    \/ \E api_key \in ApiKeys, params \in FewParams, callback \in Callbacks :
          OrcSolve(api_key, TRUE, "Mozilla/5.0", params, callback)
    \/ \E create_result \in Acks : Submit(create_result)
    \/ Sleep
    \/ \E answer \in PollAnswers : Poll(answer)
    \/ \E fault \in BOOLEAN, user_agent \in SolutionAgents : Inject(fault, user_agent)
    \/ \E valid \in BOOLEAN, cookies \in ContextJars, io_ok \in BOOLEAN :
          Verify(valid, cookies, io_ok)
    \/ OrcSolveBack

SpecOrchestrator == InitOrchestrator /\ [][NextOrchestrator]_vars

\* One get_bypassed_page call with get_session_info asked before and after
\* it; the page shows a callback and the solution names no user agent.
NextOrchestratorInfo ==
    \/ OrcInfo
    \/ OrcStart
    \/ \E valid \in BOOLEAN : OrcCachedCheck(valid)
    \/ OrcObserve
    \/ \E ev \in OrcEvents : OrcNetworkEvent(ev, TRUE)
    \/ OrcNavigated
    \/ OrcGetSitekey
    \/ GetSitekeyResume
    \/ OrcSitekeyBack
    \/ \E api_key \in ApiKeys : OrcSolve(api_key, TRUE, "Mozilla/5.0", NoParams, "function")
    \/ \E create_result \in Acks : Submit(create_result)
    \/ Sleep
    \/ \E answer \in PollAnswers : Poll(answer)
    \/ \E fault \in BOOLEAN : Inject(fault, "")
    \/ \E valid \in BOOLEAN, io_ok \in BOOLEAN : Verify(valid, <<sid, cf1>>, io_ok)
    \/ OrcSolveBack

SpecOrchestratorInfo == InitOrchestrator /\ [][NextOrchestratorInfo]_vars

Init == InitStore

Next == NextStore

Spec == Init /\ [][Next]_vars
====
